---- MODULE Spec2Model ----
(***************************************************************************)
(* Tab Stats (aki21j/browser-tab-stats): the event ledger of the           *)
(* background service worker (src/shared/stats.js, lines 298-564) and the  *)
(* storage helpers it shares the store with (src/shared/storage.js).       *)
(*                                                                         *)
(* Spec      handlers run one at a time, each one whole (read, merge,      *)
(*           write) before the next event is delivered.                    *)
(* SpecAsync handlers are started as the events arrive and interleave at   *)
(*           their awaits (chrome.tabs.get, chrome.storage.local.get/set). *)
(***************************************************************************)
EXTENDS Integers, Sequences, FiniteSets, TLC

\* ---------------------------------------------------------------- bounds
\* tab ids in use
MaxTabs == 2
\* days the clock runs over
MaxDays == 2
\* events, calls and clock ticks in a run of Spec
MaxSteps == 4
\* events and clock ticks in a run of SpecAsync
MaxAsyncEvents == 3

\* ------------------------------------------------------ program constants
\* Timestamps are counted in seconds (1000 ms): 24 * 60 * 60 * 1000 ms is one
\* day of 86400 units, which keeps every product within 32-bit integers.
DayMs == 86400
DefaultRetentionDays == 30
DefaultInactivityDays == 7
MaxSessionDays == 30

TabIds == 1..MaxTabs
WindowId == 1

\* Values the browser reports for tab.url and tab.title.  "" stands for a
\* missing or empty value (both are falsy in the handlers).
Urls == {"", "https://a.com/p", "https://b.org/"}
Titles == {"", "A", "B"}
TabShapes ==
  {[url |-> "", title |-> "B"],
   [url |-> "https://a.com/p", title |-> "A"],
   [url |-> "https://b.org/", title |-> ""]}

\* Values parseInt() of the retention field can hand to updateSettings.
RetentionInputs == {-1, 0, 1, DefaultRetentionDays}

\* Instants Date.now() can return in a run.
ClockValues == {d * DayMs : d \in 0..MaxDays}

VARIABLES
  clock,         \* Date.now()
  openTabs,      \* the browser: tab id -> [id, url, title, windowId]
  tabStats,      \* chrome.storage.local 'tabStats'
  closedTabs,    \* chrome.storage.local 'closedTabs'
  settings,      \* chrome.storage.local 'settings'
  sessionStats,  \* chrome.storage.local 'sessionStats'.daily
  ev,            \* the event or call handled by the last step
  synced,        \* no clearAllStats since the last trackExistingTabs
  nEvents,       \* events and calls so far (bounds the length of a run)
  handlers,      \* SpecAsync: the handlers started so far, in delivery order
  base,          \* SpecAsync: the ledger before the first event
  memoryCache,   \* memory.js memoryCache: tab id -> estimate
  calls,         \* SpecMem: the estimateTabMemory calls started so far
  batches,       \* SpecMem: the estimateAllTabsMemory calls started so far
  memGen,        \* SpecMem: clearMemoryCache calls so far
  scripting,     \* SpecMem: chrome.scripting.executeScript is there
  exported,      \* SpecStore: the document exportData returned last
  snapshot,      \* SpecStore: the four records when it was exported
  foreign        \* SpecStore: the other keys chrome.storage.local holds

memVars == <<memoryCache, calls, batches, memGen, scripting>>
xferVars == <<exported, snapshot, foreign>>

vars == <<clock, openTabs, tabStats, closedTabs, settings, sessionStats,
          ev, synced, nEvents, handlers, base, memVars, xferVars>>

\* ---------------------------------------------------------------- helpers
EmptyMap == [x \in {} |-> 0]

Put(f, k, v) == [x \in (DOMAIN f) \cup {k} |-> IF x = k THEN v ELSE f[x]]

Drop(f, k) == [x \in (DOMAIN f) \ {k} |-> f[x]]

\* new URL(url).hostname for the urls of the model ('' for none)
Hostname(url) ==
  CASE url = "https://a.com/p" -> "a.com"
    [] url = "https://b.org/" -> "b.org"
    [] url = "chrome://newtab/" -> "newtab"
    [] OTHER -> ""

extractDomain(url) ==
  IF url = "" THEN "unknown"
  ELSE IF Hostname(url) = "" THEN "unknown" ELSE Hostname(url)

\* new Date().toISOString().split('T')[0]: the UTC calendar day of ts,
\* kept as the number of whole days since the epoch (ISO dates sort in the
\* order of these numbers).
getTodayKey(ts) == ts \div DayMs

MkTab(t, shape) ==
  [id |-> t, url |-> shape.url, title |-> shape.title, windowId |-> WindowId]

\* NewTabStat with the activation that opened the tab left uncounted
NewTabStatUncounted(tab, timestamp) ==
  [id |-> tab.id,
   url |-> tab.url,
   title |-> IF tab.title = "" THEN "New Tab" ELSE tab.title,
   windowId |-> tab.windowId,
   createdAt |-> timestamp,
   lastAccessedAt |-> timestamp,
   activationCount |-> 0,
   domain |-> extractDomain(tab.url)]

\* The object trackTabCreation stores for a tab.
NewTabStat(tab, timestamp) ==
  [id |-> tab.id,
   url |-> tab.url,
   title |-> IF tab.title = "" THEN "New Tab" ELSE tab.title,
   windowId |-> tab.windowId,
   createdAt |-> timestamp,
   lastAccessedAt |-> timestamp,
   activationCount |-> 1,
   domain |-> extractDomain(tab.url)]

\* trackTabCreation, on the tabStats it has read
trackTabCreation(stats, tab, timestamp) ==
  Put(stats, tab.id, NewTabStat(tab, timestamp))

\* ActivateEntry that counts the activation and forgets to stamp it
ActivateEntryUnstamped(stats, tab, timestamp) ==
  [stats EXCEPT ![tab.id].activationCount = @ + 1]

\* trackTabActivation when the entry exists, on the tabStats it has read
ActivateEntry(stats, tab, timestamp) ==
  [stats EXCEPT ![tab.id].lastAccessedAt = timestamp,
                ![tab.id].activationCount = @ + 1]

\* UpdateEntry that leaves the cached domain as it was
UpdateEntryStaleDomain(stats, tab) ==
  [stats EXCEPT ![tab.id].url = IF tab.url = "" THEN @ ELSE tab.url,
                ![tab.id].title = IF tab.title = "" THEN @ ELSE tab.title]

\* trackTabUpdate when the entry exists, on the tabStats it has read
UpdateEntry(stats, tab) ==
  [stats EXCEPT ![tab.id].url = IF tab.url = "" THEN @ ELSE tab.url,
                ![tab.id].title = IF tab.title = "" THEN @ ELSE tab.title,
                ![tab.id].domain = extractDomain(tab.url)]

\* trackTabActivation, run whole
trackTabActivation(stats, tab, timestamp) ==
  IF tab.id \in DOMAIN stats
    THEN ActivateEntry(stats, tab, timestamp)
    ELSE trackTabCreation(stats, tab, timestamp)

\* trackTabUpdate, run whole
trackTabUpdate(stats, tab, timestamp) ==
  IF tab.id \in DOMAIN stats
    THEN UpdateEntry(stats, tab)
    ELSE trackTabCreation(stats, tab, timestamp)

\* (settings?.dataRetentionDays || 30) * 24 * 60 * 60 * 1000
RetentionMs(s) ==
  LET days == IF "dataRetentionDays" \in DOMAIN s
                THEN s["dataRetentionDays"] ELSE 0
  IN (IF days = 0 THEN DefaultRetentionDays ELSE days) * DayMs

ClosedRecord(stat, timestamp) ==
  [id |-> stat.id, url |-> stat.url, title |-> stat.title,
   windowId |-> stat.windowId, createdAt |-> stat.createdAt,
   lastAccessedAt |-> stat.lastAccessedAt,
   activationCount |-> stat.activationCount, domain |-> stat.domain,
   closedAt |-> timestamp]

Newer(cutoffTime, rec) == rec.closedAt > cutoffTime

\* closedTabs.push(closedTab) followed by the retention filter
PruneClosed(closed, stat, s, timestamp) ==
  LET cutoffTime == timestamp - RetentionMs(s)
      keep(rec) == Newer(cutoffTime, rec)
  IN SelectSeq(Append(closed, ClosedRecord(stat, timestamp)), keep)

\* trackTabRemoval that archives the entry and leaves it in the live map
trackTabRemovalKeepsEntry(stats, closed, s, tabId, timestamp) ==
  IF tabId \in DOMAIN stats
    THEN [tabStats |-> stats,
          closedTabs |-> PruneClosed(closed, stats[tabId], s, timestamp)]
    ELSE [tabStats |-> stats, closedTabs |-> closed]

\* trackTabRemoval, run whole: the record {tabStats, closedTabs} it writes
trackTabRemoval(stats, closed, s, tabId, timestamp) ==
  IF tabId \in DOMAIN stats
    THEN [tabStats |-> Drop(stats, tabId),
          closedTabs |-> PruneClosed(closed, stats[tabId], s, timestamp)]
    ELSE [tabStats |-> stats, closedTabs |-> closed]

updateSessionStatsKeepsOldest(daily, action, timestamp) ==
  LET todayKey == getTodayKey(timestamp)
      d0 == IF todayKey \in DOMAIN daily THEN daily
            ELSE Put(daily, todayKey, [opened |-> 0, closed |-> 0])
      d1 == IF action = "opened"
              THEN [d0 EXCEPT ![todayKey].opened = @ + 1]
              ELSE IF action = "closed"
                THEN [d0 EXCEPT ![todayKey].closed = @ + 1]
                ELSE d0
      keys == DOMAIN d1
      kept == {k \in keys : Cardinality({j \in keys : j < k}) < MaxSessionDays}
  IN IF Cardinality(keys) > MaxSessionDays
       THEN [k \in kept |-> d1[k]]
       ELSE d1

\* updateSessionStats, on the daily map it has read
updateSessionStats(daily, action, timestamp) ==
  LET todayKey == getTodayKey(timestamp)
      d0 == IF todayKey \in DOMAIN daily THEN daily
            ELSE Put(daily, todayKey, [opened |-> 0, closed |-> 0])
      d1 == IF action = "opened"
              THEN [d0 EXCEPT ![todayKey].opened = @ + 1]
              ELSE IF action = "closed"
                THEN [d0 EXCEPT ![todayKey].closed = @ + 1]
                ELSE d0
      keys == DOMAIN d1
      kept == {k \in keys : Cardinality({j \in keys : j > k}) < MaxSessionDays}
  IN IF Cardinality(keys) > MaxSessionDays
       THEN [k \in kept |-> d1[k]]
       ELSE d1

\* trackExistingTabs: trackTabCreation for every tab chrome.tabs.query returns
trackExistingTabs(stats, tabs, now) ==
  [x \in (DOMAIN stats) \cup (DOMAIN tabs) |->
     IF x \in DOMAIN tabs THEN NewTabStat(tabs[x], now) ELSE stats[x]]

\* The settings initializeStorage writes on installation.
InstalledSettings ==
  [trackingEnabled |-> TRUE,
   dataRetentionDays |-> DefaultRetentionDays,
   inactivityThresholdDays |-> DefaultInactivityDays]

\* { ...currentSettings, ...newSettings }
MergeSettingsReplaces(cur, new) == new

MergeSettings(cur, new) ==
  [k \in (DOMAIN cur) \cup (DOMAIN new) |->
     IF k \in DOMAIN new THEN new[k] ELSE cur[k]]

\* changeInfo.url || changeInfo.title of an onUpdated event
ChangeInfoSet(old, new) ==
  \/ (new.url # old.url /\ new.url # "")
  \/ (new.title # old.title /\ new.title # "")

NoEvent == [op |-> "none", id |-> 0, now |-> 0, url |-> "", title |-> ""]

Event(op, t, now, tab) ==
  [op |-> op, id |-> t, now |-> now, url |-> tab.url, title |-> tab.title]

NoTab == [id |-> 0, url |-> "", title |-> "", windowId |-> WindowId]

\* The estimator and the export are at rest in the specifications that do
\* not run them.
NoDocument == [kind |-> "none", shape |-> "none", value |-> << >>]

MemIdle ==
  /\ memoryCache = EmptyMap
  /\ calls = << >>
  /\ batches = << >>
  /\ memGen = 0
  /\ scripting = TRUE

XferIdle ==
  /\ exported = NoDocument
  /\ snapshot = EmptyMap
  /\ foreign = {}

\* ------------------------------------------------------------------- Init
\* The state installation leaves: initializeStorage has written the
\* defaults and trackExistingTabs has recorded the tabs that were open
\* (any number of them, showing the same page).
Init ==
  /\ clock = 0
  /\ \E open \in {1..k : k \in 0..MaxTabs} :
       \E shape \in TabShapes :
         openTabs = [t \in open |-> MkTab(t, shape)]
  /\ tabStats = trackExistingTabs(EmptyMap, openTabs, clock)
  /\ closedTabs = << >>
  /\ settings = InstalledSettings
  /\ sessionStats = EmptyMap
  /\ ev = NoEvent
  /\ synced = TRUE
  /\ nEvents = 0
  /\ handlers = << >>
  /\ base = [tabStats |-> tabStats, closedTabs |-> closedTabs]
  /\ MemIdle
  /\ XferIdle

\* ------------------------------------------- Spec: one handler at a time
Tick ==
  /\ nEvents < MaxSteps
  /\ clock + DayMs \in ClockValues
  /\ clock' = clock + DayMs
  /\ ev' = [NoEvent EXCEPT !.op = "tick"]
  /\ nEvents' = nEvents + 1
  /\ UNCHANGED <<openTabs, tabStats, closedTabs, settings, sessionStats,
                 synced, handlers, base,
                 memVars, xferVars>>

\* chrome.tabs.onCreated
OnCreated(t, shape) ==
  LET tab == MkTab(t, shape) IN
  /\ nEvents < MaxSteps
  /\ t \notin DOMAIN openTabs
  /\ openTabs' = Put(openTabs, t, tab)
  /\ tabStats' = trackTabCreation(tabStats, tab, clock)
  /\ sessionStats' = updateSessionStats(sessionStats, "opened", clock)
  /\ ev' = Event("created", t, clock, tab)
  /\ nEvents' = nEvents + 1
  /\ UNCHANGED <<clock, closedTabs, settings, synced, handlers, base,
                 memVars, xferVars>>

\* chrome.tabs.onActivated
OnActivated(t) ==
  /\ nEvents < MaxSteps
  /\ t \in DOMAIN openTabs
  /\ tabStats' = trackTabActivation(tabStats, openTabs[t], clock)
  /\ ev' = Event("activated", t, clock, openTabs[t])
  /\ nEvents' = nEvents + 1
  /\ UNCHANGED <<clock, openTabs, closedTabs, settings, sessionStats,
                 synced, handlers, base,
                 memVars, xferVars>>

\* chrome.tabs.onUpdated
OnUpdated(t, shape) ==
  LET tab == MkTab(t, shape) IN
  /\ nEvents < MaxSteps
  /\ t \in DOMAIN openTabs
  /\ openTabs' = [openTabs EXCEPT ![t] = tab]
  /\ tabStats' = IF ChangeInfoSet(openTabs[t], tab)
                   THEN trackTabUpdate(tabStats, tab, clock)
                   ELSE tabStats
  /\ ev' = Event(IF ChangeInfoSet(openTabs[t], tab) THEN "updated"
                 ELSE "ignored", t, clock, tab)
  /\ nEvents' = nEvents + 1
  /\ UNCHANGED <<clock, closedTabs, settings, sessionStats, synced,
                 handlers, base,
                 memVars, xferVars>>

\* chrome.tabs.onRemoved
OnRemoved(t) ==
  LET res == trackTabRemoval(tabStats, closedTabs, settings, t, clock) IN
  /\ nEvents < MaxSteps
  /\ t \in DOMAIN openTabs
  /\ openTabs' = Drop(openTabs, t)
  /\ tabStats' = res.tabStats
  /\ closedTabs' = res.closedTabs
  /\ sessionStats' = updateSessionStats(sessionStats, "closed", clock)
  /\ ev' = Event("removed", t, clock, openTabs[t])
  /\ nEvents' = nEvents + 1
  /\ UNCHANGED <<clock, settings, synced, handlers, base,
                 memVars, xferVars>>

\* onMessage 'refreshStats' (and the second half of onInstalled)
Resync ==
  /\ nEvents < MaxSteps
  /\ tabStats' = trackExistingTabs(tabStats, openTabs, clock)
  /\ ev' = [NoEvent EXCEPT !.op = "resync", !.now = clock]
  /\ synced' = TRUE
  /\ nEvents' = nEvents + 1
  /\ UNCHANGED <<clock, openTabs, closedTabs, settings, sessionStats,
                 handlers, base,
                 memVars, xferVars>>

\* dashboard saveSettings -> updateSettings
SaveSettings(days) ==
  /\ nEvents < MaxSteps
  /\ settings' = MergeSettings(settings,
       [trackingEnabled |-> TRUE,
        dataRetentionDays |-> days,
        inactivityThresholdDays |-> DefaultInactivityDays,
        showNotifications |-> TRUE])
  /\ ev' = [NoEvent EXCEPT !.op = "settings"]
  /\ nEvents' = nEvents + 1
  /\ UNCHANGED <<clock, openTabs, tabStats, closedTabs, sessionStats,
                 synced, handlers, base,
                 memVars, xferVars>>

ClearAllStatsDropsSession ==
  /\ nEvents < MaxSteps
  /\ tabStats' = EmptyMap
  /\ closedTabs' = << >>
  /\ sessionStats' = EmptyMap
  /\ ev' = [NoEvent EXCEPT !.op = "clear"]
  /\ synced' = FALSE
  /\ nEvents' = nEvents + 1
  /\ UNCHANGED <<clock, openTabs, settings, handlers, base,
                 memVars, xferVars>>

\* clearAllStats
ClearAllStats ==
  /\ nEvents < MaxSteps
  /\ tabStats' = EmptyMap
  /\ closedTabs' = << >>
  /\ ev' = [NoEvent EXCEPT !.op = "clear"]
  /\ synced' = FALSE
  /\ nEvents' = nEvents + 1
  /\ UNCHANGED <<clock, openTabs, settings, sessionStats, handlers, base,
                 memVars, xferVars>>

Next ==
  \/ Tick
  \/ \E t \in TabIds, shape \in TabShapes : OnCreated(t, shape)
  \/ \E t \in TabIds : OnActivated(t)
  \/ \E t \in TabIds, shape \in TabShapes : OnUpdated(t, shape)
  \/ \E t \in TabIds : OnRemoved(t)
  \/ Resync
  \/ \E days \in RetentionInputs : SaveSettings(days)
  \/ ClearAllStats

Spec == Init /\ [][Next]_vars

\* --------------------------------- SpecAsync: handlers that interleave
\* A started handler: its arguments, where it stands (pc) and what its
\* awaits have returned so far.
Handler(op, t, tab, ts, pc) ==
  [op |-> op, id |-> t, tab |-> tab, ts |-> ts, pc |-> pc,
   snap |-> EmptyMap, snapClosed |-> << >>, snapSettings |-> InstalledSettings,
   snapDaily |-> EmptyMap, sts |-> 0]

AsyncTick ==
  /\ nEvents < MaxAsyncEvents
  /\ clock + DayMs \in ClockValues
  /\ clock' = clock + DayMs
  /\ nEvents' = nEvents + 1
  /\ UNCHANGED <<openTabs, tabStats, closedTabs, settings, sessionStats, ev,
                 synced, handlers, base,
                 memVars, xferVars>>

\* onCreated fires: trackTabCreation(tab, Date.now()) is called
DeliverCreated(t, shape) ==
  LET tab == MkTab(t, shape) IN
  /\ nEvents < MaxAsyncEvents
  /\ t \notin DOMAIN openTabs
  /\ openTabs' = Put(openTabs, t, tab)
  /\ handlers' = Append(handlers, Handler("created", t, tab, clock, "read"))
  /\ nEvents' = nEvents + 1
  /\ UNCHANGED <<clock, tabStats, closedTabs, settings, sessionStats, ev,
                 synced, base,
                 memVars, xferVars>>

\* onActivated fires: the listener awaits chrome.tabs.get first
DeliverActivated(t) ==
  /\ nEvents < MaxAsyncEvents
  /\ t \in DOMAIN openTabs
  /\ handlers' = Append(handlers, Handler("activated", t, NoTab, 0, "get"))
  /\ nEvents' = nEvents + 1
  /\ UNCHANGED <<clock, openTabs, tabStats, closedTabs, settings,
                 sessionStats, ev, synced, base,
                 memVars, xferVars>>

\* onUpdated fires: trackTabUpdate(tab, Date.now()) if url or title changed
DeliverUpdated(t, shape) ==
  LET tab == MkTab(t, shape)
      hit == ChangeInfoSet(openTabs[t], tab) IN
  /\ nEvents < MaxAsyncEvents
  /\ t \in DOMAIN openTabs
  /\ openTabs' = [openTabs EXCEPT ![t] = tab]
  /\ handlers' = Append(handlers,
       Handler(IF hit THEN "updated" ELSE "ignored", t, tab, clock,
               IF hit THEN "read" ELSE "done"))
  /\ nEvents' = nEvents + 1
  /\ UNCHANGED <<clock, tabStats, closedTabs, settings, sessionStats, ev,
                 synced, base,
                 memVars, xferVars>>

\* onRemoved fires: trackTabRemoval(tabId, Date.now()) is called
DeliverRemoved(t) ==
  /\ nEvents < MaxAsyncEvents
  /\ t \in DOMAIN openTabs
  /\ openTabs' = Drop(openTabs, t)
  /\ handlers' = Append(handlers, Handler("removed", t, NoTab, clock, "read"))
  /\ nEvents' = nEvents + 1
  /\ UNCHANGED <<clock, tabStats, closedTabs, settings, sessionStats, ev,
                 synced, base,
                 memVars, xferVars>>

\* await chrome.tabs.get(activeInfo.tabId) returns; it rejects for a tab
\* that is gone, which ends the listener.
TabsGet(i) ==
  LET h == handlers[i] IN
  /\ h.pc = "get"
  /\ handlers' = [handlers EXCEPT ![i] =
       IF h.id \in DOMAIN openTabs
         THEN [h EXCEPT !.tab = openTabs[h.id], !.ts = clock, !.pc = "read"]
         ELSE [h EXCEPT !.pc = "failed"]]
  /\ UNCHANGED <<clock, openTabs, tabStats, closedTabs, settings,
                 sessionStats, ev, synced, nEvents, base,
                 memVars, xferVars>>

\* await chrome.storage.local.get('tabStats') (with 'closedTabs' in
\* trackTabRemoval) returns
ReadStats(i) ==
  LET h == handlers[i]
      found == h.id \in DOMAIN tabStats IN
  /\ h.pc \in {"read", "read2"}
  /\ handlers' = [handlers EXCEPT ![i] =
       [h EXCEPT
          !.snap = tabStats,
          !.snapClosed = IF h.op = "removed" THEN closedTabs ELSE @,
          !.sts = IF h.op = "removed" /\ ~found THEN clock ELSE @,
          !.pc = CASE h.pc = "read2" -> "write2"
                   [] h.op = "created" -> "write"
                   [] h.op = "removed" ->
                        IF found THEN "rsettings" ELSE "sread"
                   [] OTHER -> IF found THEN "write" ELSE "read2"]]
  /\ UNCHANGED <<clock, openTabs, tabStats, closedTabs, settings,
                 sessionStats, ev, synced, nEvents, base,
                 memVars, xferVars>>

\* await chrome.storage.local.get('settings') returns (trackTabRemoval)
ReadSettings(i) ==
  LET h == handlers[i] IN
  /\ h.pc = "rsettings"
  /\ handlers' = [handlers EXCEPT ![i] =
       [h EXCEPT !.snapSettings = settings, !.pc = "write"]]
  /\ UNCHANGED <<clock, openTabs, tabStats, closedTabs, settings,
                 sessionStats, ev, synced, nEvents, base,
                 memVars, xferVars>>

\* chrome.storage.local.set of what the handler made of its snapshot
WriteStats(i) ==
  LET h == handlers[i]
      session == h.op \in {"created", "removed"} IN
  /\ h.pc \in {"write", "write2"}
  /\ tabStats' =
       CASE h.op = "removed" -> Drop(h.snap, h.id)
         [] h.op = "created" \/ h.pc = "write2" ->
              trackTabCreation(h.snap, h.tab, h.ts)
         [] h.op = "activated" -> ActivateEntry(h.snap, h.tab, h.ts)
         [] OTHER -> UpdateEntry(h.snap, h.tab)
  /\ closedTabs' =
       IF h.op = "removed"
         THEN PruneClosed(h.snapClosed, h.snap[h.id], h.snapSettings, h.ts)
         ELSE closedTabs
  /\ handlers' = [handlers EXCEPT ![i] =
       [h EXCEPT !.pc = IF session THEN "sread" ELSE "done",
                 !.sts = IF session THEN clock ELSE @]]
  /\ UNCHANGED <<clock, openTabs, settings, sessionStats, ev, synced,
                 nEvents, base,
                 memVars, xferVars>>

\* updateSessionStats: await chrome.storage.local.get('sessionStats') returns
ReadSession(i) ==
  LET h == handlers[i] IN
  /\ h.pc = "sread"
  /\ handlers' = [handlers EXCEPT ![i] =
       [h EXCEPT !.snapDaily = sessionStats, !.pc = "swrite"]]
  /\ UNCHANGED <<clock, openTabs, tabStats, closedTabs, settings,
                 sessionStats, ev, synced, nEvents, base,
                 memVars, xferVars>>

\* updateSessionStats: chrome.storage.local.set({ sessionStats })
WriteSession(i) ==
  LET h == handlers[i] IN
  /\ h.pc = "swrite"
  /\ sessionStats' = updateSessionStats(h.snapDaily,
       IF h.op = "created" THEN "opened" ELSE "closed", h.sts)
  /\ handlers' = [handlers EXCEPT ![i] = [h EXCEPT !.pc = "done"]]
  /\ UNCHANGED <<clock, openTabs, tabStats, closedTabs, settings, ev,
                 synced, nEvents, base,
                 memVars, xferVars>>

NextAsync ==
  \/ AsyncTick
  \/ \E t \in TabIds, shape \in TabShapes : DeliverCreated(t, shape)
  \/ \E t \in TabIds : DeliverActivated(t)
  \/ \E t \in TabIds, shape \in TabShapes : DeliverUpdated(t, shape)
  \/ \E t \in TabIds : DeliverRemoved(t)
  \/ \E i \in DOMAIN handlers : TabsGet(i)
  \/ \E i \in DOMAIN handlers : ReadStats(i)
  \/ \E i \in DOMAIN handlers : ReadSettings(i)
  \/ \E i \in DOMAIN handlers : WriteStats(i)
  \/ \E i \in DOMAIN handlers : ReadSession(i)
  \/ \E i \in DOMAIN handlers : WriteSession(i)

SpecAsync == Init /\ [][NextAsync]_vars

\* The ledger the handlers started so far leave when each runs whole, in
\* delivery order, on the arguments it was given.
ApplyHandler(led, h) ==
  CASE h.op = "created" ->
         [led EXCEPT !.tabStats = trackTabCreation(@, h.tab, h.ts)]
    [] h.op = "activated" /\ h.pc # "failed" ->
         [led EXCEPT !.tabStats = trackTabActivation(@, h.tab, h.ts)]
    [] h.op = "updated" ->
         [led EXCEPT !.tabStats = trackTabUpdate(@, h.tab, h.ts)]
    [] h.op = "removed" ->
         trackTabRemoval(led.tabStats, led.closedTabs, settings, h.id, h.ts)
    [] OTHER -> led

RECURSIVE SerialRun(_)
SerialRun(n) ==
  IF n = 0 THEN base ELSE ApplyHandler(SerialRun(n - 1), handlers[n])

AllFinished == \A i \in DOMAIN handlers : handlers[i].pc \in {"done", "failed"}

\* ======================================================================
\* Properties of the event ledger
\* ======================================================================
\* The entries of every tab id but t are the same before and after a step.
OthersUnchanged(t) ==
  \A u \in TabIds \ {t} :
    /\ (u \in DOMAIN tabStats') = (u \in DOMAIN tabStats)
    /\ u \in DOMAIN tabStats => tabStats'[u] = tabStats[u]

\* tabStats'[t] is what onCreate stores for the tab of the event at now.
FreshEntry(t, url, title, now) ==
  /\ t \in DOMAIN tabStats'
  /\ tabStats'[t].id = t
  /\ tabStats'[t].createdAt = now
  /\ tabStats'[t].lastAccessedAt = now
  /\ tabStats'[t].activationCount = 1
  /\ tabStats'[t].url = url
  /\ tabStats'[t].title = (IF title = "" THEN "New Tab" ELSE title)
  /\ tabStats'[t].domain = extractDomain(url)

\* C2: trackExistingTabs (resyncAll) leaves createdAt, lastAccessedAt and
\* activationCount of every TabStat that existed before it as they were, and
\* adds entries only for open tabs that had none.
C2_ResyncKeepsExisting ==
  [][ev'.op = "resync" =>
       /\ \A t \in DOMAIN tabStats :
            /\ t \in DOMAIN tabStats'
            /\ tabStats'[t].createdAt = tabStats[t].createdAt
            /\ tabStats'[t].lastAccessedAt = tabStats[t].lastAccessedAt
            /\ tabStats'[t].activationCount = tabStats[t].activationCount
       /\ (DOMAIN tabStats') \ (DOMAIN tabStats) \subseteq DOMAIN openTabs]_vars

\* C3: an activated event, an updated event or a resync never changes the
\* createdAt of an entry that exists when it is handled.
C3_CreatedAtImmutable ==
  [][ev'.op \in {"activated", "updated", "resync"} =>
       \A t \in (DOMAIN tabStats) \cap (DOMAIN tabStats') :
         tabStats'[t].createdAt = tabStats[t].createdAt]_vars

\* C4: after onCreate(tab, now) the entry of tab.id has createdAt =
\* lastAccessedAt = now and activationCount = 1 whether or not an entry was
\* stored under that id before (a resync runs onCreate on every open tab),
\* and the entries of all other tab ids are unchanged.
C4_OnCreate ==
  [][/\ ev'.op = "created" =>
          /\ FreshEntry(ev'.id, ev'.url, ev'.title, ev'.now)
          /\ OthersUnchanged(ev'.id)
     /\ ev'.op = "resync" =>
          /\ \A t \in DOMAIN openTabs :
               FreshEntry(t, openTabs[t].url, openTabs[t].title, ev'.now)
          /\ \A u \in TabIds \ DOMAIN openTabs :
               /\ (u \in DOMAIN tabStats') = (u \in DOMAIN tabStats)
               /\ u \in DOMAIN tabStats => tabStats'[u] = tabStats[u]]_vars

\* C4 witness: a created event has been handled at a later instant than the
\* one at which another tab, still tracked, was first seen.
C4_Witness ==
  /\ ev.op = "created"
  /\ ev.id \in DOMAIN tabStats
  /\ tabStats[ev.id].createdAt = ev.now
  /\ tabStats[ev.id].activationCount = 1
  /\ \E u \in DOMAIN tabStats : tabStats[u].createdAt < ev.now

\* C5: onActivate(tab, now) on a tracked tab sets lastAccessedAt = now, adds
\* exactly 1 to activationCount and keeps createdAt, url, title and domain;
\* on an untracked tab it leaves what onCreate(tab, now) leaves.
C5_OnActivate ==
  [][ev'.op = "activated" =>
       LET t == ev'.id IN
       /\ OthersUnchanged(t)
       /\ IF t \in DOMAIN tabStats
            THEN /\ t \in DOMAIN tabStats'
                 /\ tabStats'[t].lastAccessedAt = ev'.now
                 /\ tabStats'[t].activationCount =
                      tabStats[t].activationCount + 1
                 /\ tabStats'[t].createdAt = tabStats[t].createdAt
                 /\ tabStats'[t].url = tabStats[t].url
                 /\ tabStats'[t].title = tabStats[t].title
                 /\ tabStats'[t].domain = tabStats[t].domain
            ELSE FreshEntry(t, ev'.url, ev'.title, ev'.now)]_vars

\* C5 witness: a tracked tab has been activated after the instant it was
\* created at.
C5_Witness ==
  /\ ev.op = "activated"
  /\ ev.id \in DOMAIN tabStats
  /\ tabStats[ev.id].activationCount = 2
  /\ tabStats[ev.id].lastAccessedAt = ev.now
  /\ tabStats[ev.id].createdAt < ev.now

\* What every onUpdate leaves alone, and what it does to an untracked tab.
UpdateFrame(t) ==
  /\ OthersUnchanged(t)
  /\ t \in DOMAIN tabStats =>
       /\ t \in DOMAIN tabStats'
       /\ tabStats'[t].createdAt = tabStats[t].createdAt
       /\ tabStats'[t].lastAccessedAt = tabStats[t].lastAccessedAt
       /\ tabStats'[t].activationCount = tabStats[t].activationCount
  /\ t \notin DOMAIN tabStats =>
       FreshEntry(t, ev'.url, ev'.title, ev'.now)

\* C6 as stated: onUpdate(tab, now) on a tracked tab sets url and title to
\* the tab's current values and domain to the domain of that url.
C6_OnUpdate_Original ==
  [][ev'.op = "updated" =>
       LET t == ev'.id IN
       /\ UpdateFrame(t)
       /\ t \in DOMAIN tabStats =>
            /\ tabStats'[t].url = ev'.url
            /\ tabStats'[t].title = ev'.title
            /\ tabStats'[t].domain = extractDomain(ev'.url)]_vars

\* C6 amended: onUpdate(tab, now) on a tracked tab sets url and title to the
\* tab's current values where these are not empty and keeps the stored url
\* or title where the tab's value is empty, sets domain to the domain of the
\* tab's current url ('unknown' when it is empty), and leaves createdAt,
\* lastAccessedAt and activationCount unchanged; on an untracked tab it
\* creates the entry as onCreate does.
C6_OnUpdate ==
  [][ev'.op = "updated" =>
       LET t == ev'.id IN
       /\ UpdateFrame(t)
       /\ t \in DOMAIN tabStats =>
            /\ tabStats'[t].url =
                 (IF ev'.url = "" THEN tabStats[t].url ELSE ev'.url)
            /\ tabStats'[t].title =
                 (IF ev'.title = "" THEN tabStats[t].title ELSE ev'.title)
            /\ tabStats'[t].domain =
                 (IF ev'.url = "" THEN "unknown" ELSE Hostname(ev'.url))]_vars

\* C6 witness: an update of a tracked tab has changed its url and domain
\* and kept the title because the tab reported none.
C6_Witness ==
  /\ ev.op = "updated"
  /\ ev.id \in DOMAIN tabStats
  /\ ev.title = ""
  /\ tabStats[ev.id].url = ev.url
  /\ tabStats[ev.id].domain = "b.org"
  /\ tabStats[ev.id].title = "A"

\* The copy of a TabStat that onRemove archives at now.
Archived(stat, now) ==
  [f \in (DOMAIN stat) \cup {"closedAt"} |->
     IF f = "closedAt" THEN now ELSE stat[f]]

\* C7: onRemove(tabId, now) of a tracked tab deletes the entry and leaves
\* its copy, stamped closedAt = now, as the last record of closedTabs; of
\* an untracked tab it changes neither tabStats nor closedTabs.
C7_OnRemove ==
  [][ev'.op = "removed" =>
       LET t == ev'.id IN
       IF t \in DOMAIN tabStats
         THEN /\ t \notin DOMAIN tabStats'
              /\ OthersUnchanged(t)
              /\ Len(closedTabs') >= 1
              /\ closedTabs'[Len(closedTabs')] = Archived(tabStats[t], ev'.now)
         ELSE /\ tabStats' = tabStats
              /\ closedTabs' = closedTabs]_vars

\* The retention period as C8 reads it from Settings: the stored
\* dataRetentionDays, 30 when none is stored.
StoredRetentionDays ==
  IF "dataRetentionDays" \in DOMAIN settings
    THEN settings["dataRetentionDays"] ELSE DefaultRetentionDays

IsNewerThan(cutoff, rec) == rec.closedAt > cutoff

\* C8: after onRemove of a tracked tab at now, closedTabs holds no record
\* with closedAt older than now - dataRetentionDays days (the stored value,
\* 30 when unset), and the records newer than that cutoff are all there in
\* their original order.
C8_Retention ==
  [][ev'.op = "removed" /\ ev'.id \in DOMAIN tabStats =>
       LET cutoff == ev'.now - StoredRetentionDays * DayMs
           newer(rec) == IsNewerThan(cutoff, rec)
           before == Append(closedTabs, Archived(tabStats[ev'.id], ev'.now))
       IN /\ \A i \in DOMAIN closedTabs' : closedTabs'[i].closedAt >= cutoff
          /\ SelectSeq(closedTabs', newer) = SelectSeq(before, newer)]_vars

\* C9: from a resynced ledger, events handled one at a time keep the key
\* set of tabStats equal to the set of open tab ids.
C9_KeysAreOpenTabs == synced => DOMAIN tabStats = DOMAIN openTabs

\* C9 witness: a removal has been handled in a resynced ledger that still
\* tracks another tab.
C9_Witness ==
  /\ synced
  /\ ev.op = "removed"
  /\ ev.id \notin DOMAIN tabStats
  /\ DOMAIN tabStats # {}
  /\ Len(closedTabs) >= 1

\* C1: once all started handlers have finished, tabStats and closedTabs are
\* what the same handlers leave when run one at a time in delivery order.
C1_NoLostUpdate ==
  AllFinished =>
    /\ tabStats = SerialRun(Len(handlers)).tabStats
    /\ closedTabs = SerialRun(Len(handlers)).closedTabs

\* C10: the lastAccessedAt of the TabStat of a tab that stays open never
\* decreases (the instants Date.now() returns never decrease here).
C10_LastAccessedMonotonic ==
  [][\A t \in (DOMAIN tabStats) \cap (DOMAIN tabStats') :
       (t \in DOMAIN openTabs /\ t \in DOMAIN openTabs') =>
         tabStats'[t].lastAccessedAt >= tabStats[t].lastAccessedAt]_vars

\* ======================================================================
\* Properties of the session counters
\* ======================================================================
\* The number of handlers started so far for events of one kind.
Delivered(op) == Cardinality({i \in DOMAIN handlers : handlers[i].op = op})

\* A counter of one day's bucket; a day without bucket counts zero.
DayCount(day, field) ==
  IF day \in DOMAIN sessionStats THEN sessionStats[day][field] ELSE 0

\* C11: once all handlers of the events delivered on one day have finished,
\* that day's opened counter is the number of created events delivered and
\* its closed counter the number of removed events delivered.
C11_SessionCounts ==
  (AllFinished /\ clock = 0) =>
    /\ DayCount(getTodayKey(clock), "opened") = Delivered("created")
    /\ DayCount(getTodayKey(clock), "closed") = Delivered("removed")

\* ------------------------------ SpecSession: the daily map and its pruning
\* The daily map may hold any number of buckets when updateSessionStats
\* reads it (the store takes whatever an import hands it), and today's key
\* may be older than, equal to or newer than the keys it holds.
MaxExtraDays == 2
SessionSizes == (MaxSessionDays - 2)..(MaxSessionDays + MaxExtraDays)

InitSession ==
  /\ \E n \in SessionSizes :
       /\ sessionStats = [k \in 1..n |-> [opened |-> 1, closed |-> 0]]
       /\ clock \in {0, n * DayMs}
  /\ openTabs = EmptyMap
  /\ tabStats = EmptyMap
  /\ closedTabs = << >>
  /\ settings = InstalledSettings
  /\ ev = NoEvent
  /\ synced = TRUE
  /\ nEvents = 0
  /\ handlers = << >>
  /\ base = [tabStats |-> tabStats, closedTabs |-> closedTabs]
  /\ MemIdle
  /\ XferIdle

\* a day passes
SessionTick ==
  /\ nEvents < MaxSteps
  /\ clock' = clock + DayMs
  /\ ev' = [NoEvent EXCEPT !.op = "tick"]
  /\ nEvents' = nEvents + 1
  /\ UNCHANGED <<openTabs, tabStats, closedTabs, settings, sessionStats,
                 synced, handlers, base,
                 memVars, xferVars>>

\* updateSessionStats(action), run whole
SessionUpdate(action) ==
  /\ nEvents < MaxSteps
  /\ sessionStats' = updateSessionStats(sessionStats, action, clock)
  /\ ev' = [NoEvent EXCEPT !.op = action, !.now = clock]
  /\ nEvents' = nEvents + 1
  /\ UNCHANGED <<clock, openTabs, tabStats, closedTabs, settings, synced,
                 handlers, base,
                 memVars, xferVars>>

NextSession ==
  \/ SessionTick
  \/ \E action \in {"opened", "closed"} : SessionUpdate(action)

SpecSession == InitSession /\ [][NextSession]_vars

\* K holds the n greatest keys of S.
Greatest(K, S, n) ==
  /\ K \subseteq S
  /\ Cardinality(K) = n
  /\ \A a \in K, b \in S \ K : b < a

\* C12: after every updateSessionStats call the daily map holds at most 30
\* keys; when the call had more than 30 at hand (those read, with today's),
\* the keys kept are exactly the 30 greatest, each bucket as the call had
\* it: today's with its incremented counter, every other one as read.
C12_DailyCap ==
  [][ev'.op \in {"opened", "closed"} =>
       LET today == getTodayKey(ev'.now)
           had == (DOMAIN sessionStats) \cup {today} IN
       /\ Cardinality(DOMAIN sessionStats') <= MaxSessionDays
       /\ Cardinality(had) > MaxSessionDays =>
            /\ Greatest(DOMAIN sessionStats', had, MaxSessionDays)
            /\ \A k \in (DOMAIN sessionStats') \ {today} :
                 sessionStats'[k] = sessionStats[k]]_vars

\* C12 witness: a call has pruned the oldest bucket and kept today's.
C12_Witness ==
  /\ ev.op \in {"opened", "closed"}
  /\ Cardinality(DOMAIN sessionStats) = MaxSessionDays
  /\ 1 \notin DOMAIN sessionStats
  /\ getTodayKey(ev.now) \in DOMAIN sessionStats

\* ======================================================================
\* The memory estimator (shared/memory.js)
\* ======================================================================
\* Sizes are in thousandths of a megabyte, so that the weight of one DOM
\* node (0.002 MB) is a whole number; instants are in seconds as above.
WeightBase == 30000
PerDomNode == 2
PerImage == 500
PerIframe == 10000
PerScript == 1000
PerStylesheet == 500
PerVideo == 50000
PerAudio == 5000
NonInjectableBase == 20000
CACHE_TTL == 300
INJECT_TIMEOUT == 5

MaxMemTabs == 2
MaxMemSteps == 3
MemTabIds == 1..MaxMemTabs

\* What gatherTabMetrics may find in a page: a light page and a heavy one.
MetricsSet ==
  { [domNodes |-> 1000, images |-> 4, iframes |-> 0, scripts |-> 3,
     stylesheets |-> 2, videos |-> 0, audios |-> 0],
    [domNodes |-> 1234, images |-> 1, iframes |-> 1, scripts |-> 0,
     stylesheets |-> 1, videos |-> 1, audios |-> 1] }

\* metrics: null
NullMetrics == << >>

\* The pages a tab of the estimator's caller may show.
MemUrls == {"", "chrome://newtab/", "https://a.com/p", "file:///tmp/x.html"}

calculateMemoryFromMetrics(metrics) ==
  WeightBase
    + metrics.domNodes * PerDomNode
    + metrics.images * PerImage
    + metrics.iframes * PerIframe
    + metrics.scripts * PerScript
    + metrics.stylesheets * PerStylesheet
    + metrics.videos * PerVideo
    + metrics.audios * PerAudio

\* Math.round(estimateMB * 10) / 10
RoundTenth(x) == ((x + 50) \div 100) * 100

\* String.prototype.startsWith
StartsWith(str, prefix) ==
  /\ Len(str) >= Len(prefix)
  /\ SubSeq(str, 1, Len(prefix)) = prefix

isInjectableUrlAnyScheme(url) ==
  IF url = "" THEN FALSE
  ELSE TRUE

isInjectableUrl(url) ==
  IF url = "" THEN FALSE
  ELSE \/ StartsWith(url, "http://")
       \/ StartsWith(url, "https://")
       \/ StartsWith(url, "file://")

\* An estimate object. The field by is not in the program's object: it
\* names the call that computed the estimate.
Estimate(tabId, mb, metrics, source, now, by) ==
  [tabId |-> tabId, estimateMB |-> mb, metrics |-> metrics,
   source |-> source, timestamp |-> now, by |-> by]

fallbackResult(tabId, now, by) ==
  Estimate(tabId, NonInjectableBase, NullMetrics, "fallback", now, by)

\* The cache lookup at the head of estimateTabMemory
CacheHit(cache, tabId, now) ==
  /\ tabId \in DOMAIN cache
  /\ now - cache[tabId].timestamp < CACHE_TTL

\* ------------------------------------------------ SpecMem: the estimator
NoEstimate == Estimate(0, 0, NullMetrics, "none", 0, 0)

\* How a probe ends: executeScript resolves with metrics or with no
\* result, it rejects, or the timer of withTimeout fires first.
ProbeAnswers ==
  [kind : {"result"}, metrics : MetricsSet \cup {NullMetrics}]
    \cup {[kind |-> "rejected", metrics |-> NullMetrics]}
TimerFired == [kind |-> "timeout", metrics |-> NullMetrics]

\* A started estimateTabMemory call. pc is where it stands, late whether
\* its probe is still out after the timer fired; gen, how, retAt and retGen
\* record its history: the clears before it started, how it ended, how many
\* calls had started and how many clears had run when it returned.
Call(tab, now, batch) ==
  [tabId |-> tab.id, url |-> tab.url, pc |-> "probing", startedAt |-> now,
   batch |-> batch, probed |-> FALSE, late |-> FALSE, result |-> NoEstimate,
   gen |-> memGen, how |-> "none",
   retAt |-> 0, retGen |-> 0]

Returned(call, r, how, ncalls) ==
  [call EXCEPT !.pc = "done", !.result = r, !.how = how,
               !.retAt = ncalls, !.retGen = memGen]

\* estimateTabMemory up to its first await, on the cache and the calls so
\* far: a fresh cache entry is returned, a page that cannot be injected and
\* a missing scripting API give the fallback, else the probe is sent.
StartOne(m, tab, now, batch) ==
  LET t == tab.id
      i == Len(m.calls) + 1
      c == Call(tab, now, batch)
      fb == fallbackResult(t, now, i)
  IN IF CacheHit(m.cache, t, now)
       THEN [cache |-> m.cache,
             calls |-> Append(m.calls, Returned(c, m.cache[t], "hit", i))]
     ELSE IF ~isInjectableUrl(tab.url)
       THEN [cache |-> Put(m.cache, t, fb),
             calls |-> Append(m.calls, Returned(c, fb, "notInjectable", i))]
     ELSE IF ~scripting
       THEN [cache |-> Put(m.cache, t, fb),
             calls |-> Append(m.calls, Returned(c, fb, "noScripting", i))]
     ELSE [cache |-> m.cache,
           calls |-> Append(m.calls, [c EXCEPT !.probed = TRUE])]

\* tabs.map(tab => estimateTabMemory(tab.id, tab.url)): the calls start one
\* after the other before any of them is resumed.
RECURSIVE StartAll(_, _, _, _, _)
StartAll(m, tabs, k, now, batch) ==
  IF k > Len(tabs) THEN m
  ELSE StartAll(StartOne(m, tabs[k], now, batch), tabs, k + 1, now, batch)

finishProbeUncaught(tabId, outcome, now, by) ==
  LET ok == outcome.kind = "result" /\ outcome.metrics # NullMetrics
      mb == IF ok THEN calculateMemoryFromMetrics(outcome.metrics)
            ELSE NonInjectableBase
  IN [pc |-> IF outcome.kind = "result" THEN "done" ELSE "threw",
      result |-> Estimate(tabId, RoundTenth(mb),
                          IF ok THEN outcome.metrics ELSE NullMetrics,
                          IF ok THEN "measured" ELSE "fallback", now, by)]

\* estimateTabMemory from the end of its await: the try block takes the
\* metrics of a result, the catch block swallows a rejection or a timeout,
\* and the estimate is built from what is left.
finishProbe(tabId, outcome, now, by) ==
  LET ok == outcome.kind = "result" /\ outcome.metrics # NullMetrics
      mb == IF ok THEN calculateMemoryFromMetrics(outcome.metrics)
            ELSE NonInjectableBase
  IN [pc |-> "done",
      result |-> Estimate(tabId, RoundTenth(mb),
                          IF ok THEN outcome.metrics ELSE NullMetrics,
                          IF ok THEN "measured" ELSE "fallback", now, by)]

lateSettleOverwrites(cache, tabId, outcome, now, by) ==
  Put(cache, tabId, finishProbe(tabId, outcome, now, by).result)

\* Promise.race has settled with the timer: what the probe answers later
\* reaches nobody.
lateSettle(cache, tabId, outcome, now, by) == cache

collectEstimatesMeasuredOnly(cs) ==
  LET ful == {k \in DOMAIN cs : cs[k].pc = "done"
                                  /\ cs[k].result.source = "measured"}
      ids == {cs[k].result.tabId : k \in ful}
      last(t) == CHOOSE k \in ful :
                   /\ cs[k].result.tabId = t
                   /\ \A j \in ful : cs[j].result.tabId = t => j <= k
  IN [t \in ids |-> cs[last(t)].result]

\* The loop over the Promise.allSettled results: every fulfilled value is
\* stored under its tabId.
collectEstimates(cs) ==
  LET ful == {k \in DOMAIN cs : cs[k].pc = "done"}
      ids == {cs[k].result.tabId : k \in ful}
      last(t) == CHOOSE k \in ful :
                   /\ cs[k].result.tabId = t
                   /\ \A j \in ful : cs[j].result.tabId = t => j <= k
  IN [t \in ids |-> cs[last(t)].result]

\* The tabs chrome.tabs.query hands the caller, in id order.
TabList == [k \in 1..Cardinality(DOMAIN openTabs) |-> openTabs[k]]

InitMem ==
  /\ clock = 0
  /\ \E url \in MemUrls :
       openTabs = [t \in MemTabIds |->
                     [id |-> t, url |-> url, title |-> "",
                      windowId |-> WindowId]]
  /\ tabStats = EmptyMap
  /\ closedTabs = << >>
  /\ settings = InstalledSettings
  /\ sessionStats = EmptyMap
  /\ ev = NoEvent
  /\ synced = TRUE
  /\ nEvents = 0
  /\ handlers = << >>
  /\ base = [tabStats |-> tabStats, closedTabs |-> closedTabs]
  /\ memoryCache = EmptyMap
  /\ calls = << >>
  /\ batches = << >>
  /\ memGen = 0
  /\ scripting \in BOOLEAN
  /\ XferIdle

ledgerVars == <<openTabs, tabStats, closedTabs, settings, sessionStats, ev,
                synced, handlers, base>>

\* Time passes; the timer of a waiting call fires before time passes it.
MemTick(d) ==
  /\ nEvents < MaxMemSteps
  /\ \A i \in DOMAIN calls :
       calls[i].pc = "probing" =>
         clock + d - calls[i].startedAt <= INJECT_TIMEOUT
  /\ clock' = clock + d
  /\ nEvents' = nEvents + 1
  /\ UNCHANGED <<ledgerVars, memVars, xferVars>>

\* estimateTabMemory(tab.id, tab.url) is called for one tab
StartEstimate(t) ==
  LET m == StartOne([cache |-> memoryCache, calls |-> calls],
                    openTabs[t], clock, 0) IN
  /\ nEvents < MaxMemSteps
  /\ t \in DOMAIN openTabs
  /\ memoryCache' = m.cache
  /\ calls' = m.calls
  /\ nEvents' = nEvents + 1
  /\ UNCHANGED <<clock, ledgerVars, batches, memGen, scripting, xferVars>>

\* estimateAllTabsMemory(tabs) is called: up to await Promise.allSettled
StartBatch ==
  LET b == Len(batches) + 1
      m == StartAll([cache |-> memoryCache, calls |-> calls],
                    TabList, 1, clock, b) IN
  /\ nEvents + Len(TabList) <= MaxMemSteps
  /\ memoryCache' = m.cache
  /\ calls' = m.calls
  /\ batches' = Append(batches,
       [first |-> Len(calls) + 1, n |-> Len(TabList), pc |-> "waiting",
        estimates |-> EmptyMap])
  /\ nEvents' = nEvents + Len(TabList)
  /\ UNCHANGED <<clock, ledgerVars, memGen, scripting, xferVars>>

\* The probe of call i answers before the timer fires.
ProbeAnswer(i, outcome) ==
  LET c == calls[i]
      fin == finishProbe(c.tabId, outcome, clock, i) IN
  /\ c.pc = "probing"
  /\ clock - c.startedAt <= INJECT_TIMEOUT
  /\ memoryCache' = IF fin.pc = "done"
                      THEN Put(memoryCache, c.tabId, fin.result)
                      ELSE memoryCache
  /\ calls' = [calls EXCEPT ![i] =
       [Returned(c, fin.result,
                 IF fin.result.source = "measured" THEN "measured"
                 ELSE IF outcome.kind = "rejected" THEN "rejected"
                 ELSE "empty", Len(calls))
          EXCEPT !.pc = fin.pc]]
  /\ UNCHANGED <<clock, ledgerVars, nEvents, batches, memGen, scripting,
                 xferVars>>

\* The timer of withTimeout fires after INJECT_TIMEOUT: the race rejects
\* while the probe is still out.
ProbeTimeout(i) ==
  LET c == calls[i]
      fin == finishProbe(c.tabId, TimerFired, clock, i) IN
  /\ c.pc = "probing"
  /\ clock - c.startedAt >= INJECT_TIMEOUT
  /\ memoryCache' = IF fin.pc = "done"
                      THEN Put(memoryCache, c.tabId, fin.result)
                      ELSE memoryCache
  /\ calls' = [calls EXCEPT ![i] =
       [Returned(c, fin.result, "timeout", Len(calls))
          EXCEPT !.pc = fin.pc, !.late = TRUE]]
  /\ UNCHANGED <<clock, ledgerVars, nEvents, batches, memGen, scripting,
                 xferVars>>

\* The probe of a call that timed out answers at last.
LateAnswer(i, outcome) ==
  LET c == calls[i] IN
  /\ c.late
  /\ memoryCache' = lateSettle(memoryCache, c.tabId, outcome, clock, i)
  /\ calls' = [calls EXCEPT ![i] = [c EXCEPT !.late = FALSE]]
  /\ UNCHANGED <<clock, ledgerVars, nEvents, batches, memGen, scripting,
                 xferVars>>

\* Promise.allSettled resolves and estimateAllTabsMemory returns its map
FinishBatch(b) ==
  LET bt == batches[b]
      mine == bt.first..(bt.first + bt.n - 1) IN
  /\ bt.pc = "waiting"
  /\ \A i \in mine : calls[i].pc \in {"done", "threw"}
  /\ batches' = [batches EXCEPT ![b] =
       [bt EXCEPT !.pc = "done",
                  !.estimates = collectEstimates(
                     SubSeq(calls, bt.first, bt.first + bt.n - 1))]]
  /\ UNCHANGED <<clock, ledgerVars, nEvents, memoryCache, calls, memGen,
                 scripting, xferVars>>

\* clearMemoryCache()
ClearCache ==
  /\ nEvents < MaxMemSteps
  /\ memoryCache' = EmptyMap
  /\ memGen' = memGen + 1
  /\ nEvents' = nEvents + 1
  /\ UNCHANGED <<clock, ledgerVars, calls, batches, scripting, xferVars>>

MemTickSteps == {INJECT_TIMEOUT, CACHE_TTL}

NextMem ==
  \/ \E d \in MemTickSteps : MemTick(d)
  \/ \E t \in MemTabIds : StartEstimate(t)
  \/ StartBatch
  \/ \E i \in DOMAIN calls, outcome \in ProbeAnswers : ProbeAnswer(i, outcome)
  \/ \E i \in DOMAIN calls : ProbeTimeout(i)
  \/ \E i \in DOMAIN calls, outcome \in ProbeAnswers : LateAnswer(i, outcome)
  \/ \E b \in DOMAIN batches : FinishBatch(b)
  \/ ClearCache

SpecMem == InitMem /\ [][NextMem]_vars

\* ======================================================================
\* Properties of the memory estimator
\* ======================================================================
\* The ways a probe fails to give metrics.
ProbeFailures == {"rejected", "timeout", "empty", "noScripting"}

\* r is the flat estimate: 20 MB, no metrics, source 'fallback'.
IsFallback(r) ==
  /\ r.estimateMB = NonInjectableBase
  /\ r.metrics = NullMetrics
  /\ r.source = "fallback"

\* The fields of an estimate that the program holds.
Visible(r) ==
  [tabId |-> r.tabId, estimateMB |-> r.estimateMB, metrics |-> r.metrics,
   source |-> r.source, timestamp |-> r.timestamp]

\* Call i returns in this step.
JustReturned(i) ==
  /\ i \in DOMAIN calls'
  /\ calls'[i].pc # "probing"
  /\ i \in DOMAIN calls => calls[i].pc = "probing"

\* Call i starts in this step.
JustStarted(i) == i \in (DOMAIN calls') \ (DOMAIN calls)

\* C13: a call for a tab that starts after an earlier call for the same tab
\* returned, less than CACHE_TTL after the timestamp of what that call
\* returned and with no clearMemoryCache in between, returns the same
\* estimate without sending the probe.
C13_CacheIdempotent ==
  \A i, j \in DOMAIN calls :
    ( /\ calls[i].tabId = calls[j].tabId
      /\ calls[i].pc = "done"
      /\ j > calls[i].retAt
      /\ calls[j].startedAt - calls[i].result.timestamp < CACHE_TTL
      /\ calls[j].gen = calls[i].retGen )
    => /\ calls[j].pc = "done"
       /\ Visible(calls[j].result) = Visible(calls[i].result)
       /\ ~calls[j].probed

\* C14: the map estimateAllTabsMemory returns has one entry for each of
\* its N tabs, whichever probes fail: the entry of a tab is what its own
\* call returned, the flat estimate where its probe failed and the estimate
\* computed from its own metrics where it answered.
C14_AllTabsGetAnEntry ==
  \A b \in DOMAIN batches :
    batches[b].pc = "done" =>
      LET bt == batches[b]
          mine == bt.first..(bt.first + bt.n - 1)
          est == bt.estimates IN
      /\ DOMAIN est = {calls[i].tabId : i \in mine}
      /\ Cardinality(DOMAIN est) = bt.n
      /\ \A i \in mine :
           LET r == est[calls[i].tabId] IN
           /\ r = calls[i].result
           /\ r.tabId = calls[i].tabId
           /\ calls[i].how \in ProbeFailures => IsFallback(r)
           /\ calls[i].how = "measured" =>
                /\ r.source = "measured"
                /\ r.metrics \in MetricsSet
                /\ r.estimateMB =
                     RoundTenth(calculateMemoryFromMetrics(r.metrics))

\* C14 witness: a batch has returned in which one probe failed and another
\* one answered.
C14_Witness ==
  \E b \in DOMAIN batches :
    /\ batches[b].pc = "done"
    /\ \E i, j \in batches[b].first..(batches[b].first + batches[b].n - 1) :
         /\ calls[i].how \in {"rejected", "timeout"}
         /\ calls[j].how = "measured"

\* C15: a call whose probe rejects, times out or gives no result, or that
\* finds no scripting API, does not throw: it returns the flat estimate,
\* and that estimate is the cache entry of the tab when it returns.
C15_ProbeFailureFallsBack ==
  [][\A i \in DOMAIN calls' :
       (JustReturned(i) /\ calls'[i].how \in ProbeFailures) =>
         /\ calls'[i].pc = "done"
         /\ IsFallback(calls'[i].result)
         /\ calls'[i].tabId \in DOMAIN memoryCache'
         /\ memoryCache'[calls'[i].tabId] = calls'[i].result]_vars

\* C15 witness: calls have ended by a rejection and by a missing result.
C15_Witness ==
  \E i, j \in DOMAIN calls :
    /\ calls[i].how = "rejected"
    /\ calls[j].how = "empty"
    /\ calls[i].pc = "done"

\* C16: a call whose probe has not answered INJECT_TIMEOUT after it was
\* sent returns the flat estimate, and the answer of that probe, when it
\* comes, changes neither what the call returned nor the cache.
C16_TimeoutThenLateAnswer ==
  [][/\ \A i \in DOMAIN calls' :
          (JustReturned(i) /\ calls'[i].how = "timeout") =>
            /\ IsFallback(calls'[i].result)
            /\ calls'[i].result.timestamp - calls'[i].startedAt
                 >= INJECT_TIMEOUT
     /\ \A i \in DOMAIN calls :
          (calls[i].late /\ ~calls'[i].late) =>
            /\ memoryCache' = memoryCache
            /\ calls'[i].result = calls[i].result
            /\ calls'[i].pc = calls[i].pc
     /\ \A i \in DOMAIN calls' :
          calls'[i].pc = "probing" =>
            clock' - calls'[i].startedAt <= INJECT_TIMEOUT]_vars

\* C16 witness: the probe of a call that timed out has answered.
C16_Witness ==
  \E i \in DOMAIN calls :
    /\ calls[i].how = "timeout"
    /\ ~calls[i].late
    /\ calls[i].tabId \in DOMAIN memoryCache

\* C17: a call returns no estimate that was computed by a call started
\* before a clearMemoryCache that came before its own start.
C17_NoEstimateFromBeforeClear ==
  \A j \in DOMAIN calls :
    calls[j].pc = "done" =>
      calls[calls[j].result.by].gen = calls[j].gen

\* The url starts with one of the schemes a script can be injected into.
HasInjectableScheme(url) ==
  \E prefix \in {"http://", "https://", "file://"} : StartsWith(url, prefix)

\* C18: a call for a url without injectable scheme that finds no fresh
\* cache entry returns the flat estimate at once, without sending the
\* probe, and stores it in the cache.
C18_NotInjectableFallsBack ==
  [][\A i \in DOMAIN calls' :
       ( /\ JustStarted(i)
         /\ ~HasInjectableScheme(calls'[i].url)
         /\ ~CacheHit(memoryCache, calls'[i].tabId, clock) )
       => /\ calls'[i].pc = "done"
          /\ IsFallback(calls'[i].result)
          /\ calls'[i].result.timestamp = clock
          /\ ~calls'[i].probed
          /\ memoryCache'[calls'[i].tabId] = calls'[i].result]_vars

\* C18 witness: with the scripting API there, a call for a browser page
\* has returned the flat estimate unprobed.
C18_Witness ==
  /\ scripting
  /\ \E i \in DOMAIN calls :
       /\ calls[i].url = "chrome://newtab/"
       /\ calls[i].how = "notInjectable"
       /\ ~calls[i].probed

\* ======================================================================
\* Export and import (shared/storage.js)
\* ======================================================================
\* A document is a text: kind says whether JSON.parse accepts it, shape
\* whether the value it denotes is an object, value holds the object.
JsonStringify(v) == [kind |-> "json", shape |-> "object", value |-> v]

\* getAllData: the three records it asks chrome.storage.local for
getAllData ==
  [tabStats |-> tabStats, closedTabs |-> closedTabs, settings |-> settings]

\* exportData
exportData == JsonStringify(getAllData)

\* Texts an import may be handed besides an export: one that is no JSON,
\* the JSON of a number, and the JSON of an object that is no bundle.
MalformedPayloads ==
  { [kind |-> "text", shape |-> "none", value |-> << >>],
    [kind |-> "json", shape |-> "scalar", value |-> << >>],
    [kind |-> "json", shape |-> "object", value |-> [foo |-> 1]] }

StoreKeys == {"tabStats", "closedTabs", "settings", "sessionStats"}

\* The four records of the store
StoreRecords ==
  [tabStats |-> tabStats, closedTabs |-> closedTabs, settings |-> settings,
   sessionStats |-> sessionStats]

\* What importData(doc) resolves to. JSON.parse throws on a text that is
\* no JSON and the catch block returns false; a parsed value goes to
\* chrome.storage.local.set inside a promise that is returned unawaited, so
\* a value set does not take rejects the call or, where set lets it pass,
\* resolves it to true.
ImportResults(doc) ==
  IF doc.kind # "json" THEN {"false"}
  ELSE IF doc.shape # "object" THEN {"rejected", "true"}
  ELSE {"true"}

\* chrome.storage.local.set(data): every key of data replaces that key of
\* the store, the other keys stay.
StoreSet(doc) ==
  LET v == doc.value
      writes == doc.kind = "json" /\ doc.shape = "object"
      has(k) == writes /\ k \in DOMAIN v IN
  /\ tabStats' = IF has("tabStats") THEN v.tabStats ELSE tabStats
  /\ closedTabs' = IF has("closedTabs") THEN v.closedTabs ELSE closedTabs
  /\ settings' = IF has("settings") THEN v.settings ELSE settings
  /\ sessionStats' = IF has("sessionStats") THEN v.sessionStats
                     ELSE sessionStats
  /\ foreign' = IF writes THEN foreign \cup ((DOMAIN v) \ StoreKeys)
                ELSE foreign

\* exportData is called
StoreExport ==
  /\ nEvents < MaxSteps
  /\ exported' = exportData
  /\ snapshot' = StoreRecords
  /\ ev' = [op |-> "export", payload |-> "none", result |-> "none"]
  /\ nEvents' = nEvents + 1
  /\ UNCHANGED <<clock, openTabs, tabStats, closedTabs, settings,
                 sessionStats, synced, handlers, base, memVars, foreign>>

\* importData(doc) is called
StoreImport(doc, payload) ==
  /\ nEvents < MaxSteps
  /\ doc.kind # "none"
  /\ StoreSet(doc)
  /\ \E res \in ImportResults(doc) :
       ev' = [op |-> "import", payload |-> payload, result |-> res]
  /\ synced' = FALSE
  /\ nEvents' = nEvents + 1
  /\ UNCHANGED <<clock, openTabs, handlers, base, memVars, exported,
                 snapshot>>

\* The partial settings objects updateSettings is handed here.
SettingsPatches ==
  { [inactivityThresholdDays |-> 3],
    [showNotifications |-> FALSE, autoCloseEnabled |-> TRUE],
    [trackingEnabled |-> FALSE, dataRetentionDays |-> 7] }

\* updateSettings(p), run whole
UpdateSettings(p) ==
  /\ nEvents < MaxSteps
  /\ settings' = MergeSettings(settings, p)
  /\ ev' = [op |-> "update", payload |-> p, result |-> "none"]
  /\ nEvents' = nEvents + 1
  /\ UNCHANGED <<clock, openTabs, tabStats, closedTabs, sessionStats,
                 synced, handlers, base, memVars, xferVars>>

NextStore ==
  \/ \E t \in TabIds, shape \in TabShapes : OnCreated(t, shape)
  \/ \E t \in TabIds : OnRemoved(t)
  \/ \E days \in RetentionInputs : SaveSettings(days)
  \/ ClearAllStats
  \/ StoreExport
  \/ StoreImport(exported, "export")
  \/ \E doc \in MalformedPayloads : StoreImport(doc, "malformed")
  \/ \E p \in SettingsPatches : UpdateSettings(p)

SpecStore == Init /\ [][NextStore]_vars

\* C19: an export holds the four records tabStats, closedTabs, settings
\* and sessionStats, and importing it into the store, emptied or changed
\* since, puts the four records back as they were at the export.
C19_ExportRoundTrip ==
  /\ exported.kind # "none" => DOMAIN exported.value = StoreKeys
  /\ (ev.op = "import" /\ ev.payload = "export") => StoreRecords = snapshot

\* C20: importData of a text that is no JSON, or of JSON that is no bundle
\* object, resolves to false and leaves every key of the store as it was.
C20_MalformedImport ==
  [][(ev'.op = "import" /\ ev'.payload = "malformed") =>
       /\ ev'.result = "false"
       /\ UNCHANGED <<tabStats, closedTabs, settings, sessionStats,
                      foreign>>]_vars

\* ======================================================================
\* Properties of the storage helpers
\* ======================================================================
\* C21: after updateSettings(p) the stored settings have p's value for
\* every key of p and the value they had for every other key, and
\* tabStats, closedTabs and sessionStats are as before.
C21_UpdateSettingsMerges ==
  [][ev'.op = "update" =>
       LET p == ev'.payload IN
       /\ DOMAIN settings' = (DOMAIN settings) \cup (DOMAIN p)
       /\ \A k \in DOMAIN p : settings'[k] = p[k]
       /\ \A k \in (DOMAIN settings) \ (DOMAIN p) : settings'[k] = settings[k]
       /\ UNCHANGED <<tabStats, closedTabs, sessionStats>>]_vars

\* C21 witness: a partial update has left a retention period saved before
\* it in place.
C21_Witness ==
  /\ ev.op = "update"
  /\ "dataRetentionDays" \notin DOMAIN ev.payload
  /\ settings.dataRetentionDays = 1
  /\ "autoCloseEnabled" \in DOMAIN settings

\* C22: clearAllStats leaves tabStats the empty map and closedTabs the
\* empty list, and the stored settings and sessionStats as they were.
C22_ClearKeepsSettings ==
  [][ev'.op = "clear" =>
       /\ tabStats' = EmptyMap
       /\ closedTabs' = << >>
       /\ UNCHANGED <<settings, sessionStats>>]_vars

\* C22 witness: statistics were cleared in a store that held entries,
\* session counters and settings changed since installation.
C22_Witness ==
  /\ ev.op = "clear"
  /\ DOMAIN openTabs # {}
  /\ tabStats = EmptyMap
  /\ sessionStats # EmptyMap
  /\ settings # InstalledSettings

\* getDefaultSettings
getDefaultSettings ==
  [trackingEnabled |-> TRUE,
   dataRetentionDays |-> DefaultRetentionDays,
   inactivityThresholdDays |-> DefaultInactivityDays,
   showNotifications |-> TRUE,
   autoCloseEnabled |-> FALSE]

\* The store has no settings key (never the case once initializeStorage
\* has run).
NoSettings == [missing |-> TRUE]

\* getSettings, and the settings of getAllData: result.settings ||
\* getDefaultSettings()
getSettings == IF settings = NoSettings THEN getDefaultSettings ELSE settings

\* C23: the settings object that getSettings and getAllData return has all
\* five keys, a key the user never set holding its default (the settings
\* form has no field for autoCloseEnabled).
C23_SettingsComplete ==
  /\ DOMAIN getSettings = DOMAIN getDefaultSettings
  /\ DOMAIN getAllData.settings = DOMAIN getDefaultSettings
  /\ getSettings.autoCloseEnabled = getDefaultSettings.autoCloseEnabled

\* The ranges of the two periods of a settings record.
MaxRetentionDays == 365
MaxInactivityDays == 90

\* C24: in every stored settings record dataRetentionDays is within
\* 1..365 and inactivityThresholdDays within 1..90.
C24_SettingsInRange ==
  /\ settings.dataRetentionDays \in 1..MaxRetentionDays
  /\ settings.inactivityThresholdDays \in 1..MaxInactivityDays

\* ------------------------------------------------ the statistics engine
\* SpecStats: calculateStats, getInactiveTabs and generateRecommendations
\* (src/shared/stats.js, lines 11-134 and 223-295) applied to the tabs the
\* browser reports and the entries the ledger holds.

\* tabs chrome.tabs.query returns to the statistics engine
MaxStatTabs == 3

NewTabUrl == "chrome://newtab/"

\* Date.now() when the statistics are computed
StatsNow == 10 * DayMs

\* What the ledger can hold for a tab: nothing (the tab was opened after
\* clearAllStats), or an entry created and last accessed so long before now,
\* in seconds, with so many activations.
Untracked == [tracked |-> FALSE]
Fresh == [tracked |-> TRUE, age |-> 0, idle |-> 0, count |-> 1]
OldUnused == [tracked |-> TRUE, age |-> 8 * DayMs, idle |-> 8 * DayMs, count |-> 1]
OldBusy == [tracked |-> TRUE, age |-> 8 * DayMs, idle |-> DayMs, count |-> 3]
StatProfiles ==
  { Untracked, Fresh, OldUnused, OldBusy,
    [tracked |-> TRUE, age |-> 7 * DayMs, idle |-> 7 * DayMs, count |-> 2],
    [tracked |-> TRUE, age |-> 8 * DayMs, idle |-> 2 * DayMs, count |-> 2] }

\* The tabs of the model: every profile at one url, and three of them at a
\* second url and at the new-tab page.
StatInputs ==
  [url : {"https://a.com/p"}, prof : StatProfiles]
    \cup [url : {"https://b.org/", NewTabUrl},
          prof : {Untracked, OldUnused, OldBusy}]

\* Values of settings.inactivityThresholdDays, and of the days argument.
ThresholdInputs == {0, 1, DefaultInactivityDays}

StatTab(t, url) ==
  [id |-> t, url |-> url, title |-> "A", windowId |-> WindowId]

StatEntry(tab, prof, now) ==
  [NewTabStat(tab, now - prof.age) EXCEPT
     !.lastAccessedAt = now - prof.idle,
     !.activationCount = prof.count]

\* { ...a, ...b }; spreading undefined adds nothing
Spread(a, b) ==
  [k \in (DOMAIN a) \cup (DOMAIN b) |-> IF k \in DOMAIN b THEN b[k] ELSE a[k]]

SpreadStat(stats, tab) ==
  IF tab.id \in DOMAIN stats THEN Spread(tab, stats[tab.id]) ELSE tab

\* v || d
OrDefault(v, d) == IF v = 0 THEN d ELSE v

\* Array.prototype.sort on records [key, val] with the comparator
\* a.key - b.key: ascending, and stable.
RECURSIVE SortByKey(_)
SortByKey(s) ==
  IF s = << >> THEN << >>
  ELSE LET done == SortByKey(SubSeq(s, 1, Len(s) - 1))
           r == s[Len(s)]
           k == Cardinality({i \in 1..Len(done) : done[i].key <= r.key})
       IN SubSeq(done, 1, k) \o <<r>> \o SubSeq(done, k + 1, Len(done))

Vals(s) == [i \in 1..Len(s) |-> s[i].val]

\* urlMap.get(url).push(rec), or urlMap.set(url, [rec]): a Map keeps its
\* keys in the order they were first set.
UrlMapPush(m, url, rec) ==
  IF \E i \in 1..Len(m) : m[i].url = url
  THEN [i \in 1..Len(m) |->
          IF m[i].url = url THEN [m[i] EXCEPT !.tabs = Append(@, rec)]
          ELSE m[i]]
  ELSE Append(m, [url |-> url, tabs |-> <<rec>>])

\* the urlMap of calculateStats after the first n tabs: the tab is pushed
\* inside  if (tabStat) { ... }
RECURSIVE statsUrlMap(_, _, _)
statsUrlMap(stats, tabs, n) ==
  IF n = 0 THEN << >>
  ELSE LET m == statsUrlMap(stats, tabs, n - 1)
           tab == tabs[n]
       IN IF tab.id \in DOMAIN stats
          THEN UrlMapPush(m, tab.url, Spread(tab, stats[tab.id]))
          ELSE m

IsDuplicateGroup(g) == Len(g.tabs) > 1 /\ g.url # NewTabUrl

\* null
NullTab == << >>

\* x < (v || Infinity)
LessOrInfinity(x, v) == v = 0 \/ x < v

\* oldestTab, newestTab, mostAccessedTab and leastAccessedTab of
\* calculateStats after the first n tabs.  The tab a field holds is compared
\* by the entry the ledger has under its id.
RECURSIVE statsExtremes(_, _, _, _)
statsExtremes(stats, tabs, n, now) ==
  IF n = 0
  THEN [oldestTab |-> NullTab, newestTab |-> NullTab,
        mostAccessedTab |-> NullTab, leastAccessedTab |-> NullTab]
  ELSE LET e == statsExtremes(stats, tabs, n - 1, now)
           tab == tabs[n]
       IN IF tab.id \notin DOMAIN stats THEN e
          ELSE LET tabStat == stats[tab.id]
                   age == now - tabStat.createdAt
                   merged == Spread(tab, tabStat)
               IN [oldestTab |->
                     IF \/ e.oldestTab = NullTab
                        \/ age > now - stats[e.oldestTab.id].createdAt
                     THEN Spread(merged, [age |-> age]) ELSE e.oldestTab,
                   newestTab |->
                     IF \/ e.newestTab = NullTab
                        \/ LessOrInfinity(age,
                             now - stats[e.newestTab.id].createdAt)
                     THEN Spread(merged, [age |-> age]) ELSE e.newestTab,
                   mostAccessedTab |->
                     IF \/ e.mostAccessedTab = NullTab
                        \/ tabStat.activationCount
                             > stats[e.mostAccessedTab.id].activationCount
                     THEN merged ELSE e.mostAccessedTab,
                   leastAccessedTab |->
                     IF \/ e.leastAccessedTab = NullTab
                        \/ LessOrInfinity(tabStat.activationCount,
                             stats[e.leastAccessedTab.id].activationCount)
                     THEN merged ELSE e.leastAccessedTab]

\* calculateStats: the tab count, the four extreme tabs and the duplicate
\* groups of its result
calculateStats(stats, tabs, now) ==
  LET groups == SelectSeq(statsUrlMap(stats, tabs, Len(tabs)), IsDuplicateGroup)
      e == statsExtremes(stats, tabs, Len(tabs), now)
  IN [totalTabs |-> Len(tabs),
      oldestTab |-> e.oldestTab,
      newestTab |-> e.newestTab,
      mostAccessedTab |-> e.mostAccessedTab,
      leastAccessedTab |-> e.leastAccessedTab,
      duplicateTabs |->
        [i \in 1..Len(groups) |->
           [url |-> groups[i].url,
            count |-> Len(groups[i].tabs),
            tabs |-> groups[i].tabs]]]

\* getInactiveTabs that also returns a tab idle for exactly the threshold
getInactiveTabsAtLeast(stats, tabs, days, now) ==
  LET threshold == days * DayMs
      Idle(tab) == /\ tab.id \in DOMAIN stats
                   /\ now - stats[tab.id].lastAccessedAt >= threshold
      kept == SelectSeq(tabs, Idle)
      mapped == [i \in 1..Len(kept) |->
                   Spread(Spread(kept[i], stats[kept[i].id]),
                          [inactiveDuration |->
                             now - stats[kept[i].id].lastAccessedAt])]
  IN Vals(SortByKey([i \in 1..Len(mapped) |->
                       [key |-> 0 - mapped[i].inactiveDuration,
                        val |-> mapped[i]]]))

\* getInactiveTabs: filter, map, sort by b.inactiveDuration - a.inactiveDuration
getInactiveTabs(stats, tabs, days, now) ==
  LET threshold == days * DayMs
      Idle(tab) == /\ tab.id \in DOMAIN stats
                   /\ now - stats[tab.id].lastAccessedAt > threshold
      kept == SelectSeq(tabs, Idle)
      mapped == [i \in 1..Len(kept) |->
                   Spread(Spread(kept[i], stats[kept[i].id]),
                          [inactiveDuration |->
                             now - stats[kept[i].id].lastAccessedAt])]
  IN Vals(SortByKey([i \in 1..Len(mapped) |->
                       [key |-> 0 - mapped[i].inactiveDuration,
                        val |-> mapped[i]]]))

\* the urlMap of generateRecommendations after the first n tabs: every tab
\* is pushed
RECURSIVE recUrlMap(_, _, _)
recUrlMap(stats, tabs, n) ==
  IF n = 0 THEN << >>
  ELSE UrlMapPush(recUrlMap(stats, tabs, n - 1), tabs[n].url,
                  SpreadStat(stats, tabs[n]))

\* "Old (7+ days) but accessed less than 3 times"
RarelyUsedAgeDays == 7
RarelyUsedActivations == 3

\* rarelyUsedOldTabs with the user's inactivity threshold as the age limit
rarelyUsedOldTabsByThreshold(stats, tabs, inactivityThreshold, now) ==
  LET Rare(tab) ==
        /\ tab.id \in DOMAIN stats
        /\ now - stats[tab.id].createdAt > inactivityThreshold
        /\ stats[tab.id].activationCount < RarelyUsedActivations
      kept == SelectSeq(tabs, Rare)
  IN [i \in 1..Len(kept) |-> Spread(kept[i], stats[kept[i].id])]

\* rarelyUsedOldTabs of generateRecommendations; inactivityThreshold is
\* the constant the function computes first and never reads
rarelyUsedOldTabs(stats, tabs, inactivityThreshold, now) ==
  LET Rare(tab) ==
        /\ tab.id \in DOMAIN stats
        /\ now - stats[tab.id].createdAt > RarelyUsedAgeDays * DayMs
        /\ stats[tab.id].activationCount < RarelyUsedActivations
      kept == SelectSeq(tabs, Rare)
  IN [i \in 1..Len(kept) |-> Spread(kept[i], stats[kept[i].id])]

\* priorityOrder
PriorityRank(p) ==
  CASE p = "high" -> 0
    [] p = "medium" -> 1
    [] p = "low" -> 2

\* generateRecommendations (the message texts are left out)
generateRecommendations(stats, tabs, sett, now) ==
  LET days == OrDefault(sett.inactivityThresholdDays, DefaultInactivityDays)
      inactivityThreshold == days * DayMs
      inactiveTabs == getInactiveTabs(stats, tabs, days, now)
      duplicates ==
        LET groups == SelectSeq(recUrlMap(stats, tabs, Len(tabs)),
                                IsDuplicateGroup)
        IN [i \in 1..Len(groups) |->
              [url |-> groups[i].url, tabs |-> groups[i].tabs]]
      rare == rarelyUsedOldTabs(stats, tabs, inactivityThreshold, now)
      r1 == IF Len(inactiveTabs) > 0
            THEN <<[type |-> "inactive", priority |-> "high",
                    tabs |-> inactiveTabs, action |-> "close"]>>
            ELSE << >>
      r2 == IF Len(duplicates) > 0
            THEN <<[type |-> "duplicate", priority |-> "medium",
                    duplicates |-> duplicates,
                    action |-> "close_duplicates"]>>
            ELSE << >>
      r3 == IF Len(rare) > 0
            THEN <<[type |-> "rarely_used", priority |-> "low",
                    tabs |-> rare, action |-> "review"]>>
            ELSE << >>
      recommendations == r1 \o r2 \o r3
  IN Vals(SortByKey([i \in 1..Len(recommendations) |->
                       [key |-> PriorityRank(recommendations[i].priority),
                        val |-> recommendations[i]]]))

\* currentTabs: the array chrome.tabs.query({}) resolves to
currentTabs == [k \in 1..Cardinality(DOMAIN openTabs) |-> openTabs[k]]

InitStats ==
  /\ clock = StatsNow
  /\ \E n \in 1..MaxStatTabs :
       \E inp \in [1..n -> StatInputs] :
         /\ openTabs = [t \in 1..n |-> StatTab(t, inp[t].url)]
         /\ tabStats =
              [t \in {x \in 1..n : inp[x].prof.tracked} |->
                 StatEntry(openTabs[t], inp[t].prof, clock)]
  /\ closedTabs = << >>
  /\ settings = InstalledSettings
  /\ sessionStats = EmptyMap
  /\ ev = NoEvent
  /\ synced = TRUE
  /\ nEvents = 0
  /\ handlers = << >>
  /\ base = [tabStats |-> tabStats, closedTabs |-> closedTabs]
  /\ MemIdle
  /\ XferIdle

statVars == <<clock, openTabs, tabStats, closedTabs, settings, sessionStats,
              synced, nEvents, handlers, base, memVars, xferVars>>

\* the dashboard or the side panel computes the statistics
CalculateStats ==
  /\ ev' = [op |-> "calculateStats",
            result |-> calculateStats(tabStats, currentTabs, clock)]
  /\ UNCHANGED statVars

\* getInactiveTabs is called with a number of days
GetInactiveTabs(days) ==
  /\ ev' = [op |-> "getInactiveTabs", days |-> days,
            result |-> getInactiveTabs(tabStats, currentTabs, days, clock)]
  /\ UNCHANGED statVars

\* generateRecommendations is called with some settings
GenerateRecommendations(d) ==
  LET sett == MergeSettings(settings, [inactivityThresholdDays |-> d])
  IN /\ ev' = [op |-> "generateRecommendations", settings |-> sett,
               result |-> generateRecommendations(tabStats, currentTabs,
                                                  sett, clock)]
     /\ UNCHANGED statVars

NextStats ==
  \/ CalculateStats
  \/ \E days \in ThresholdInputs : GetInactiveTabs(days)
  \/ \E d \in ThresholdInputs : GenerateRecommendations(d)

SpecStats == InitStats /\ [][NextStats]_vars

\* ------------------------------------- properties of the statistics engine
\* the groups of a duplicateTabs array that hold the tab with this id
GroupsOf(groups, id) ==
  {g \in 1..Len(groups) :
     \E k \in 1..Len(groups[g].tabs) : groups[g].tabs[k].id = id}

SharesUrl(i, j) ==
  /\ i # j
  /\ currentTabs[i].url = currentTabs[j].url
  /\ currentTabs[i].url # NewTabUrl

\* C25: in the duplicateTabs of calculateStats, two current tabs with the
\* same url (not the new-tab page) are together in exactly one group, of
\* two tabs at least, whether the ledger has an entry for them or not; a
\* tab whose url no other current tab has is in no group.
C25_DuplicateGroups ==
  ev.op = "calculateStats" =>
    LET groups == ev.result.duplicateTabs
        n == Len(currentTabs)
    IN /\ \A i, j \in 1..n :
            SharesUrl(i, j) =>
              /\ GroupsOf(groups, currentTabs[i].id)
                   = GroupsOf(groups, currentTabs[j].id)
              /\ Cardinality(GroupsOf(groups, currentTabs[i].id)) = 1
       /\ \A g \in 1..Len(groups) : Len(groups[g].tabs) >= 2
       /\ \A i \in 1..n :
            (\A j \in 1..n : j # i => currentTabs[j].url # currentTabs[i].url)
              => GroupsOf(groups, currentTabs[i].id) = {}

Ids(s) == {s[i].id : i \in 1..Len(s)}

\* how long the tab has been idle, for a tab the ledger has an entry for
InactiveDuration(id) == clock - tabStats[id].lastAccessedAt

\* the current tabs with an entry, idle for more than days days
IdleLongerThan(days) ==
  {id \in Ids(currentTabs) \cap DOMAIN tabStats :
     InactiveDuration(id) > days * DayMs}

\* C26: getInactiveTabs returns exactly the current tabs that have an entry
\* and have been idle for strictly more than days days, each once, with its
\* idle time, the longest idle first; so the result for a larger number of
\* days is within the result for a smaller one.
C26_InactiveTabs ==
  ev.op = "getInactiveTabs" =>
    LET r == ev.result
    IN /\ Ids(r) = IdleLongerThan(ev.days)
       /\ Len(r) = Cardinality(Ids(r))
       /\ \A i \in 1..Len(r) : r[i].inactiveDuration = InactiveDuration(r[i].id)
       /\ \A i, j \in 1..Len(r) :
            i < j => r[i].inactiveDuration >= r[j].inactiveDuration
       /\ \A d \in ThresholdInputs :
            d <= ev.days =>
              Ids(r) \subseteq
                Ids(getInactiveTabs(tabStats, currentTabs, d, clock))

\* C26 witness: a call that returns two tabs, the longer idle first, listed
\* the other way round in currentTabs, and leaves out a tab idle for exactly
\* the threshold.
C26_Witness ==
  /\ ev.op = "getInactiveTabs"
  /\ Len(ev.result) = 2
  /\ ev.result[1].inactiveDuration > ev.result[2].inactiveDuration
  /\ ev.result[1].id > ev.result[2].id
  /\ \E id \in DOMAIN tabStats : InactiveDuration(id) = ev.days * DayMs
  /\ ev.days > 0

\* ------------------------------------------------------ tab health score
\* SpecHealth: calculateTabHealthScore (src/unnamed/part_002, lines 148-188)
\* applied to one ledger entry, or to none.

\* 60 * 60 * 1000 ms
HourMs == 3600

\* the argument of calculateTabHealthScore for a tab without an entry
NoTabStat == << >>

\* Recency: 40 within the hour, 30 within the day, 15 within 7 days, else 5
recencyScore(tabStat, now) ==
  LET sinceAccess == now - tabStat.lastAccessedAt
  IN IF sinceAccess < HourMs THEN 40
     ELSE IF sinceAccess < 24 * HourMs THEN 30
     ELSE IF sinceAccess < 24 * 7 * HourMs THEN 15
     ELSE 5

\* tabStat.activationCount || 1
activations(tabStat) == OrDefault(tabStat.activationCount, 1)

\* frequencyScore with the top score for more than 10 activations only
frequencyScoreAboveTen(tabStat) ==
  IF activations(tabStat) > 10 THEN 30
  ELSE IF activations(tabStat) >= 5 THEN 20
  ELSE IF activations(tabStat) >= 2 THEN 10
  ELSE 5

\* Frequency: 30 for 10 activations or more, 20 for 5, 10 for 2, else 5
frequencyScore(tabStat) ==
  IF activations(tabStat) >= 10 THEN 30
  ELSE IF activations(tabStat) >= 5 THEN 20
  ELSE IF activations(tabStat) >= 2 THEN 10
  ELSE 5

\* Math.max(ageInDays, 1) times dayMs
AtLeastADay(age) == IF age > DayMs THEN age ELSE DayMs

\* ageScore with a usage ratio of exactly 0.5 scored as below 0.5
ageScoreAboveHalf(tabStat, now) ==
  LET age == now - tabStat.createdAt
      acts == activations(tabStat)
  IN IF age < DayMs THEN 30
     ELSE IF acts * DayMs >= AtLeastADay(age) THEN 30
     ELSE IF 2 * acts * DayMs > AtLeastADay(age) THEN 20
     ELSE IF 10 * acts * DayMs >= AtLeastADay(age) THEN 10
     ELSE 5

\* Age appropriateness.  usageRatio = activations / Math.max(ageInDays, 1)
\* with ageInDays = age / dayMs; usageRatio >= r is compared as
\* activations * dayMs >= r * Math.max(age, dayMs), in whole numbers.
ageScore(tabStat, now) ==
  LET age == now - tabStat.createdAt
      acts == activations(tabStat)
  IN IF age < DayMs THEN 30
     ELSE IF acts * DayMs >= AtLeastADay(age) THEN 30
     ELSE IF 2 * acts * DayMs >= AtLeastADay(age) THEN 20
     ELSE IF 10 * acts * DayMs >= AtLeastADay(age) THEN 10
     ELSE 5

\* calculateTabHealthScore; Math.round of a sum of whole numbers is the sum
calculateTabHealthScore(tabStat, now) ==
  IF tabStat = NoTabStat THEN 0
  ELSE recencyScore(tabStat, now) + frequencyScore(tabStat)
         + ageScore(tabStat, now)

\* Date.now() when the score is computed
HealthNow == 12 * DayMs

\* how long before now the entry was last accessed, and was created
IdleInputs ==
  {0, HourMs - 1, HourMs, DayMs - 1, DayMs, 7 * DayMs - 1, 7 * DayMs, 8 * DayMs}
AgeInputs ==
  {0, HourMs, DayMs - 1, DayMs, 2 * DayMs, 2 * DayMs + 1, 8 * DayMs,
   10 * DayMs, 10 * DayMs + 1}
\* activationCount; 0 stands for a count that is unset as well
CountInputs == {0, 1, 2, 4, 5, 9, 10, 11}

InitHealth ==
  /\ clock = HealthNow
  /\ openTabs = [t \in {1} |-> StatTab(t, "https://a.com/p")]
  /\ \/ tabStats = EmptyMap
     \/ \E age \in AgeInputs, idle \in IdleInputs, count \in CountInputs :
          /\ idle <= age
          /\ tabStats =
               [t \in {1} |->
                  StatEntry(openTabs[t],
                            [age |-> age, idle |-> idle, count |-> count],
                            clock)]
  /\ closedTabs = << >>
  /\ settings = InstalledSettings
  /\ sessionStats = EmptyMap
  /\ ev = NoEvent
  /\ synced = TRUE
  /\ nEvents = 0
  /\ handlers = << >>
  /\ base = [tabStats |-> tabStats, closedTabs |-> closedTabs]
  /\ MemIdle
  /\ XferIdle

\* tabStats[tab.id]
TabStatOf(id) == IF id \in DOMAIN tabStats THEN tabStats[id] ELSE NoTabStat

\* the score of a tab is computed
HealthScore(t) ==
  /\ ev' = [op |-> "healthScore", tabStat |-> TabStatOf(t), now |-> clock,
            result |-> calculateTabHealthScore(TabStatOf(t), clock)]
  /\ UNCHANGED statVars

NextHealth == \E t \in DOMAIN openTabs : HealthScore(t)

SpecHealth == InitHealth /\ [][NextHealth]_vars

\* C27: the health score is a whole number from 0 to 100; it is 0 for a tab
\* without an entry, and 100 for a tab last accessed less than an hour ago,
\* activated 10 times or more and less than one day old.
C27_HealthScoreRange ==
  ev.op = "healthScore" =>
    /\ ev.result \in 0..100
    /\ ev.tabStat = NoTabStat => ev.result = 0
    /\ ( /\ ev.tabStat # NoTabStat
         /\ ev.now - ev.tabStat.lastAccessedAt < HourMs
         /\ ev.tabStat.activationCount >= 10
         /\ ev.now - ev.tabStat.createdAt < DayMs ) => ev.result = 100

\* C27 witness: the score of a tab opened an hour ago, last accessed within
\* the hour and activated exactly 10 times.
C27_Witness ==
  /\ ev.op = "healthScore"
  /\ ev.tabStat # NoTabStat
  /\ ev.now - ev.tabStat.createdAt = HourMs
  /\ ev.now - ev.tabStat.lastAccessedAt = HourMs - 1
  /\ ev.tabStat.activationCount = 10
  /\ ev.result = 100

\* the three parts of the score as the specification tabulates them, for an
\* entry last accessed idle and created age before now, with count
\* activations (none, or 0, counted as 1)
ExpectedRecency(idle) ==
  CASE idle < HourMs -> 40
    [] idle >= HourMs /\ idle < DayMs -> 30
    [] idle >= DayMs /\ idle < 7 * DayMs -> 15
    [] OTHER -> 5

ExpectedFrequency(count) ==
  LET c == IF count = 0 THEN 1 ELSE count
  IN CASE c >= 10 -> 30
       [] c \in 5..9 -> 20
       [] c \in 2..4 -> 10
       [] OTHER -> 5

\* count / (age / DayMs) >= num / 10
RatioAtLeast(count, age, num) == 10 * count * DayMs >= num * age

ExpectedAgeScore(count, age) ==
  LET c == IF count = 0 THEN 1 ELSE count
  IN CASE age < DayMs -> 30
       [] age >= DayMs /\ RatioAtLeast(c, age, 10) -> 30
       [] age >= DayMs /\ ~RatioAtLeast(c, age, 10) /\ RatioAtLeast(c, age, 5)
            -> 20
       [] age >= DayMs /\ ~RatioAtLeast(c, age, 5) /\ RatioAtLeast(c, age, 1)
            -> 10
       [] OTHER -> 5

\* C28: for an entry the health score is the sum of the recency score
\* (40, 30, 15 or 5 for under 1 hour, under 24 hours, under 7 days or more
\* since the last access), the frequency score (30, 20, 10 or 5 for 10, 5, 2
\* or fewer activations) and the age score (30 under one day of age, else
\* 30, 20, 10 or 5 for 1, 0.5, 0.1 or fewer activations per day of age); a
\* tab created and last accessed 8 days ago with one activation scores 20.
C28_HealthScoreFormula ==
  (ev.op = "healthScore" /\ ev.tabStat # NoTabStat) =>
    LET idle == ev.now - ev.tabStat.lastAccessedAt
        age == ev.now - ev.tabStat.createdAt
        count == ev.tabStat.activationCount
    IN /\ ev.result = ExpectedRecency(idle) + ExpectedFrequency(count)
                        + ExpectedAgeScore(count, age)
       /\ (idle = 8 * DayMs /\ age = 8 * DayMs /\ count = 1) => ev.result = 20

\* C28 witness: the score of a tab created and last accessed 8 days ago
\* with one activation.
C28_Witness ==
  /\ ev.op = "healthScore"
  /\ ev.tabStat # NoTabStat
  /\ ev.now - ev.tabStat.lastAccessedAt = 8 * DayMs
  /\ ev.now - ev.tabStat.createdAt = 8 * DayMs
  /\ ev.tabStat.activationCount = 1
  /\ ev.result = 20

\* ---------------------------------------- properties of the recommendations
Types(recs) == [i \in 1..Len(recs) |-> recs[i].type]

HasType(recs, type) == \E i \in 1..Len(recs) : recs[i].type = type

TypeRank(type) ==
  CASE type = "inactive" -> 1
    [] type = "duplicate" -> 2
    [] type = "rarely_used" -> 3

TypePriority(type) ==
  CASE type = "inactive" -> "high"
    [] type = "duplicate" -> "medium"
    [] type = "rarely_used" -> "low"

\* the tracked current tabs older than 7 days with fewer than 3 activations
RarelyUsedIds ==
  {id \in Ids(currentTabs) \cap DOMAIN tabStats :
     /\ clock - tabStats[id].createdAt > 7 * DayMs
     /\ tabStats[id].activationCount < 3}

\* C29: generateRecommendations returns at most one record of each type, in
\* the order inactive (high), duplicate (medium), rarely_used (low); the
\* inactive record is there exactly when getInactiveTabs at
\* settings.inactivityThresholdDays returns a tab, the duplicate record
\* exactly when two current tabs share a url other than the new-tab page,
\* the rarely_used record exactly when a tracked tab is older than 7 days
\* with fewer than 3 activations.
C29_Recommendations ==
  ev.op = "generateRecommendations" =>
    LET recs == ev.result
        n == Len(currentTabs)
    IN /\ \A i, j \in 1..Len(recs) :
            i < j => TypeRank(recs[i].type) < TypeRank(recs[j].type)
       /\ \A i \in 1..Len(recs) :
            recs[i].priority = TypePriority(recs[i].type)
       /\ HasType(recs, "inactive")
            <=> getInactiveTabs(tabStats, currentTabs,
                                ev.settings.inactivityThresholdDays, clock)
                  # << >>
       /\ HasType(recs, "duplicate") <=> \E i, j \in 1..n : SharesUrl(i, j)
       /\ HasType(recs, "rarely_used") <=> RarelyUsedIds # {}

\* the tabs of the record of this type, none when there is no such record
TabsOfType(recs, type) ==
  IF HasType(recs, type)
  THEN (CHOOSE r \in {recs[i] : i \in 1..Len(recs)} : r.type = type).tabs
  ELSE << >>

\* the same call with another inactivity threshold in the settings
RecommendationsAt(d) ==
  generateRecommendations(tabStats, currentTabs,
                          MergeSettings(ev.settings,
                                        [inactivityThresholdDays |-> d]),
                          clock)

\* C30: the tabs of the rarely_used recommendation are the tracked tabs
\* older than the fixed 7 days with fewer than 3 activations, and the same
\* call with settings that differ in inactivityThresholdDays yields the same
\* rarely_used tabs.
C30_RarelyUsedIgnoresSettings ==
  ev.op = "generateRecommendations" =>
    /\ Ids(TabsOfType(ev.result, "rarely_used")) = RarelyUsedIds
    /\ \A d \in ThresholdInputs :
         TabsOfType(RecommendationsAt(d), "rarely_used")
           = TabsOfType(ev.result, "rarely_used")

\* C30 witness: a call with a threshold of one day that reports a rarely
\* used tab, not the tracked tab of exactly 7 days with 2 activations, and
\* whose inactive tabs are not those of the call with the default threshold.
C30_Witness ==
  /\ ev.op = "generateRecommendations"
  /\ ev.settings.inactivityThresholdDays = 1
  /\ RarelyUsedIds # {}
  /\ Ids(TabsOfType(ev.result, "rarely_used")) = RarelyUsedIds
  /\ \E id \in DOMAIN tabStats \ RarelyUsedIds :
       /\ clock - tabStats[id].createdAt = 7 * DayMs
       /\ tabStats[id].activationCount < 3
  /\ TabsOfType(RecommendationsAt(DefaultInactivityDays), "inactive")
       # TabsOfType(ev.result, "inactive")

\* ------------------------------------------- the engine's other functions
\* SpecEngine: the seven functions of the statistics engine applied to the
\* same tabs and ledger, one call after the other.

\* tabs chrome.tabs.query returns in SpecEngine
MaxEngineTabs == 2

\* an entry of 8 days that was activated twice, the last time just now
Regular == [tracked |-> TRUE, age |-> 8 * DayMs, idle |-> 0, count |-> 2]

EngineInputs == StatInputs \cup [url : {"https://a.com/p"}, prof : {Regular}]

\* getTabsByAge without the tabs that have no entry
getTabsByAgeTrackedOnly(stats, tabs, ascending, now) ==
  LET HasEntry(tab) == tab.id \in DOMAIN stats
      kept == SelectSeq(tabs, HasEntry)
      tabsWithAge ==
        [i \in 1..Len(kept) |->
           Spread(SpreadStat(stats, kept[i]),
                  [age |-> now - stats[kept[i].id].createdAt])]
  IN Vals(SortByKey([i \in 1..Len(tabsWithAge) |->
                       [key |-> IF ascending THEN tabsWithAge[i].age
                                ELSE 0 - tabsWithAge[i].age,
                        val |-> tabsWithAge[i]]]))

\* getTabsByAge: map every tab to { ...tab, ...tabStat, age }, then sort the
\* new array by a.age - b.age or by b.age - a.age
getTabsByAge(stats, tabs, ascending, now) ==
  LET tabsWithAge ==
        [i \in 1..Len(tabs) |->
           Spread(SpreadStat(stats, tabs[i]),
                  [age |-> IF tabs[i].id \in DOMAIN stats
                           THEN now - stats[tabs[i].id].createdAt
                           ELSE 0])]
  IN Vals(SortByKey([i \in 1..Len(tabsWithAge) |->
                       [key |-> IF ascending THEN tabsWithAge[i].age
                                ELSE 0 - tabsWithAge[i].age,
                        val |-> tabsWithAge[i]]]))

InitEngine ==
  /\ clock = StatsNow
  /\ \E n \in 0..MaxEngineTabs :
       \E inp \in [1..n -> EngineInputs] :
         /\ openTabs = [t \in 1..n |-> StatTab(t, inp[t].url)]
         /\ tabStats =
              [t \in {x \in 1..n : inp[x].prof.tracked} |->
                 StatEntry(openTabs[t], inp[t].prof, clock)]
  /\ closedTabs = << >>
  /\ settings = InstalledSettings
  /\ sessionStats = EmptyMap
  /\ ev = NoEvent
  /\ synced = TRUE
  /\ nEvents = 0
  /\ handlers = << >>
  /\ base = [tabStats |-> tabStats, closedTabs |-> closedTabs]
  /\ MemIdle
  /\ XferIdle

\* GetTabsByAge that sorts the currentTabs array itself
GetTabsByAgeInPlace(ascending) ==
  LET sorted == getTabsByAge(tabStats, currentTabs, ascending, clock)
  IN /\ ev' = [op |-> "getTabsByAge", ascending |-> ascending,
               result |-> sorted]
     /\ openTabs' = [k \in 1..Len(sorted) |-> openTabs[sorted[k].id]]
     /\ UNCHANGED <<clock, tabStats, closedTabs, settings, sessionStats,
                    synced, nEvents, handlers, base, memVars, xferVars>>

\* the tab list is sorted by age
GetTabsByAge(ascending) ==
  /\ ev' = [op |-> "getTabsByAge", ascending |-> ascending,
            result |-> getTabsByAge(tabStats, currentTabs, ascending, clock)]
  /\ UNCHANGED statVars

\* getTabsByActivations: as getTabsByAge, on tabStat?.activationCount || 0
getTabsByActivations(stats, tabs, ascending) ==
  LET tabsWithActivations ==
        [i \in 1..Len(tabs) |->
           Spread(SpreadStat(stats, tabs[i]),
                  [activationCount |->
                     IF tabs[i].id \in DOMAIN stats
                     THEN stats[tabs[i].id].activationCount
                     ELSE 0])]
  IN Vals(SortByKey([i \in 1..Len(tabsWithActivations) |->
                       [key |-> IF ascending
                                THEN tabsWithActivations[i].activationCount
                                ELSE 0 - tabsWithActivations[i].activationCount,
                        val |-> tabsWithActivations[i]]]))

\* tabStat?.domain || extractDomain(tab.url)
DomainOf(stats, tab) ==
  IF tab.id \in DOMAIN stats /\ stats[tab.id].domain # ""
  THEN stats[tab.id].domain
  ELSE extractDomain(tab.url)

\* the domainMap of getDomainStats after the first n tabs, in the order the
\* domains were first seen
RECURSIVE domainMap(_, _, _)
domainMap(stats, tabs, n) ==
  IF n = 0 THEN << >>
  ELSE LET m == domainMap(stats, tabs, n - 1)
           tab == tabs[n]
           domain == DomainOf(stats, tab)
           acts == IF tab.id \in DOMAIN stats
                   THEN stats[tab.id].activationCount ELSE 0
           m1 == IF \E i \in 1..Len(m) : m[i].domain = domain THEN m
                 ELSE Append(m, [domain |-> domain, count |-> 0,
                                 tabs |-> << >>, totalActivations |-> 0])
       IN [i \in 1..Len(m1) |->
             IF m1[i].domain = domain
             THEN [m1[i] EXCEPT
                     !.count = @ + 1,
                     !.tabs = Append(@, SpreadStat(stats, tab)),
                     !.totalActivations = @ + acts]
             ELSE m1[i]]

\* getDomainStats: the values of domainMap sorted by b.count - a.count
getDomainStats(stats, tabs) ==
  LET m == domainMap(stats, tabs, Len(tabs))
  IN Vals(SortByKey([i \in 1..Len(m) |->
                       [key |-> 0 - m[i].count, val |-> m[i]]]))

\* Math.round(num / den) for num >= 0 and den > 0: halves go up
RoundDiv(num, den) == (2 * num + den) \div (2 * den)

\* the scores calculateOverallTabHealth adds up: one for each of the first
\* n tabs that has an entry
RECURSIVE healthScores(_, _, _, _)
healthScores(stats, tabs, n, now) ==
  IF n = 0 THEN << >>
  ELSE IF tabs[n].id \in DOMAIN stats
       THEN Append(healthScores(stats, tabs, n - 1, now),
                   calculateTabHealthScore(stats[tabs[n].id], now))
       ELSE healthScores(stats, tabs, n - 1, now)

RECURSIVE SumSeq(_)
SumSeq(s) == IF s = << >> THEN 0 ELSE s[1] + SumSeq(Tail(s))

CountIf(s, Test(_)) == Cardinality({i \in 1..Len(s) : Test(s[i])})

\* calculateOverallTabHealth that divides by the number of scored tabs
calculateOverallTabHealthOverScored(stats, tabs, now) ==
  LET scores == healthScores(stats, tabs, Len(tabs), now)
      totalScore == SumSeq(scores)
      healthyCount == CountIf(scores, LAMBDA x : x >= 50)
      count == OrDefault(Len(scores), 1)
  IN [averageHealth |-> RoundDiv(totalScore, count),
      healthyCount |-> healthyCount,
      unhealthyCount |-> CountIf(scores, LAMBDA x : x < 50),
      distribution |->
        [excellent |-> CountIf(scores, LAMBDA x : x >= 75),
         good |-> CountIf(scores, LAMBDA x : x < 75 /\ x >= 50),
         fair |-> CountIf(scores, LAMBDA x : x < 50 /\ x >= 25),
         poor |-> CountIf(scores, LAMBDA x : x < 25)],
      efficiency |-> RoundDiv(healthyCount * 100, count)]

\* calculateOverallTabHealth
calculateOverallTabHealth(stats, tabs, now) ==
  LET scores == healthScores(stats, tabs, Len(tabs), now)
      totalScore == SumSeq(scores)
      healthyCount == CountIf(scores, LAMBDA x : x >= 50)
      count == OrDefault(Len(tabs), 1)
  IN [averageHealth |-> RoundDiv(totalScore, count),
      healthyCount |-> healthyCount,
      unhealthyCount |-> CountIf(scores, LAMBDA x : x < 50),
      distribution |->
        [excellent |-> CountIf(scores, LAMBDA x : x >= 75),
         good |-> CountIf(scores, LAMBDA x : x < 75 /\ x >= 50),
         fair |-> CountIf(scores, LAMBDA x : x < 50 /\ x >= 25),
         poor |-> CountIf(scores, LAMBDA x : x < 25)],
      efficiency |-> RoundDiv(healthyCount * 100, count)]

\* the tab list is sorted by activations
GetTabsByActivations(ascending) ==
  /\ ev' = [op |-> "getTabsByActivations", ascending |-> ascending,
            result |-> getTabsByActivations(tabStats, currentTabs, ascending)]
  /\ UNCHANGED statVars

\* the domain statistics are computed
GetDomainStats ==
  /\ ev' = [op |-> "getDomainStats",
            result |-> getDomainStats(tabStats, currentTabs)]
  /\ UNCHANGED statVars

\* the overall health is computed
CalculateOverallTabHealth ==
  /\ ev' = [op |-> "calculateOverallTabHealth",
            result |-> calculateOverallTabHealth(tabStats, currentTabs, clock)]
  /\ UNCHANGED statVars

NextEngine ==
  \/ CalculateStats
  \/ \E days \in ThresholdInputs : GetInactiveTabs(days)
  \/ \E d \in ThresholdInputs : GenerateRecommendations(d)
  \/ \E ascending \in BOOLEAN : GetTabsByAge(ascending)
  \/ \E ascending \in BOOLEAN : GetTabsByActivations(ascending)
  \/ GetDomainStats
  \/ CalculateOverallTabHealth

SpecEngine == InitEngine /\ [][NextEngine]_vars

Reverse(s) == [i \in 1..Len(s) |-> s[Len(s) + 1 - i]]

\* the age getTabsByAge gives a current tab
AgeOf(id) == IF id \in DOMAIN tabStats THEN clock - tabStats[id].createdAt ELSE 0

\* C31: getTabsByAge returns every current tab exactly once, a tab without
\* an entry with age 0, in the order of the ages (ascending or descending as
\* asked); when no two ages are equal the ascending list is the descending
\* list reversed.
C31_TabsByAge ==
  ev.op = "getTabsByAge" =>
    LET r == ev.result
        other == getTabsByAge(tabStats, currentTabs, ~ev.ascending, clock)
    IN /\ Len(r) = Len(currentTabs)
       /\ Ids(r) = Ids(currentTabs)
       /\ \A i \in 1..Len(r) : r[i].age = AgeOf(r[i].id)
       /\ \A i, j \in 1..Len(r) :
            i < j => IF ev.ascending THEN r[i].age <= r[j].age
                     ELSE r[i].age >= r[j].age
       /\ (\A i, j \in 1..Len(r) : i # j => r[i].age # r[j].age)
            => r = Reverse(other)

\* C31 witness: an ascending list of two tabs of different ages, one of them
\* without an entry, that is not in the order of currentTabs.
C31_Witness ==
  /\ ev.op = "getTabsByAge"
  /\ ev.ascending
  /\ Len(ev.result) = 2
  /\ ev.result[1].id \notin DOMAIN tabStats
  /\ ev.result[1].age < ev.result[2].age
  /\ ev.result[1].id > ev.result[2].id

EngineOps ==
  {"calculateStats", "getInactiveTabs", "getTabsByAge", "getTabsByActivations",
   "getDomainStats", "generateRecommendations", "calculateOverallTabHealth"}

\* C32: a call of calculateStats, getInactiveTabs, getTabsByAge,
\* getTabsByActivations, getDomainStats, generateRecommendations or
\* calculateOverallTabHealth leaves the tabs and the entries it was given as
\* they were (same elements, order and field values) and writes nothing to
\* the store.
C32_EngineIsPure ==
  [][ev'.op \in EngineOps =>
       /\ openTabs' = openTabs
       /\ tabStats' = tabStats
       /\ closedTabs' = closedTabs
       /\ settings' = settings
       /\ sessionStats' = sessionStats]_vars

\* C32 witness: getTabsByActivations returned the two current tabs in the
\* other order, with an activationCount on the tab that has no entry, and
\* the tabs are where they were.
C32_Witness ==
  /\ ev.op = "getTabsByActivations"
  /\ Len(ev.result) = 2
  /\ ev.result[1].id = 2
  /\ ev.result[2].id = 1
  /\ 1 \notin DOMAIN tabStats
  /\ ev.result[2].activationCount = 0
  /\ "activationCount" \notin DOMAIN openTabs[1]
  /\ currentTabs[1].id = 1

\* the positions in currentTabs of the tabs that have an entry
TrackedAt == {i \in 1..Len(currentTabs) : currentTabs[i].id \in DOMAIN tabStats}

CountOf(id) == tabStats[id].activationCount

\* the first position among the tracked tabs where Val is greatest
FirstGreatest(Val(_)) ==
  CHOOSE i \in TrackedAt :
    /\ \A j \in TrackedAt : Val(currentTabs[j].id) <= Val(currentTabs[i].id)
    /\ \A j \in TrackedAt :
         Val(currentTabs[j].id) = Val(currentTabs[i].id) => i <= j

FirstLeast(Val(_)) ==
  CHOOSE i \in TrackedAt :
    /\ \A j \in TrackedAt : Val(currentTabs[j].id) >= Val(currentTabs[i].id)
    /\ \A j \in TrackedAt :
         Val(currentTabs[j].id) = Val(currentTabs[i].id) => i <= j

\* C33: calculateStats returns as oldestTab and newestTab the tracked
\* current tabs of the greatest and the least age, as mostAccessedTab and
\* leastAccessedTab those of the greatest and the least activationCount, the
\* earliest in currentTabs among the tabs that tie.
C33_ExtremeTabs ==
  (ev.op = "calculateStats" /\ TrackedAt # {}) =>
    /\ ev.result.oldestTab.id = currentTabs[FirstGreatest(AgeOf)].id
    /\ ev.result.newestTab.id = currentTabs[FirstLeast(AgeOf)].id
    /\ ev.result.mostAccessedTab.id = currentTabs[FirstGreatest(CountOf)].id
    /\ ev.result.leastAccessedTab.id = currentTabs[FirstLeast(CountOf)].id

\* the health score of the tracked tab at position i of currentTabs
ScoreAt(i) == calculateTabHealthScore(tabStats[currentTabs[i].id], clock)

RECURSIVE SumScores(_)
SumScores(P) ==
  IF P = {} THEN 0
  ELSE LET i == CHOOSE x \in P : TRUE IN ScoreAt(i) + SumScores(P \ {i})

\* r is num / den rounded to the nearest whole number, a half going up
IsRounded(r, num, den) ==
  /\ 2 * den * r <= 2 * num + den
  /\ 2 * num + den < 2 * den * (r + 1)

\* C34: calculateOverallTabHealth returns as averageHealth the sum of the
\* scores of the tracked current tabs divided by the number of current tabs
\* (by 1 when there is none) and rounded, as efficiency 100 times the number
\* of tabs scoring 50 or more divided the same way and rounded, and it
\* counts every scored tab in exactly one of excellent (75 or more), good
\* (50 or more), fair (25 or more) and poor.
C34_OverallHealth ==
  ev.op = "calculateOverallTabHealth" =>
    LET r == ev.result
        den == IF Len(currentTabs) = 0 THEN 1 ELSE Len(currentTabs)
        Scored(lo, hi) == {i \in TrackedAt : ScoreAt(i) \in lo..hi}
    IN /\ IsRounded(r.averageHealth, SumScores(TrackedAt), den)
       /\ IsRounded(r.efficiency, 100 * Cardinality(Scored(50, 100)), den)
       /\ r.distribution.excellent = Cardinality(Scored(75, 100))
       /\ r.distribution.good = Cardinality(Scored(50, 74))
       /\ r.distribution.fair = Cardinality(Scored(25, 49))
       /\ r.distribution.poor = Cardinality(Scored(0, 24))
       /\ r.distribution.excellent + r.distribution.good
            + r.distribution.fair + r.distribution.poor
            = Cardinality(TrackedAt)

\* C34 witness: two tabs, one without an entry and one scoring 75: the
\* average is 37.5 rounded to 38 and the efficiency 50.
C34_Witness ==
  /\ ev.op = "calculateOverallTabHealth"
  /\ Len(currentTabs) = 2
  /\ Cardinality(TrackedAt) = 1
  /\ \A i \in TrackedAt : ScoreAt(i) = 75
  /\ ev.result.averageHealth = 38
  /\ ev.result.efficiency = 50
  /\ ev.result.distribution.excellent = 1

\* ------------------------------------- further properties of the handlers
\* the tab ids whose last created or removed event was a removed event
RemovedLast ==
  {t \in TabIds :
     \E i \in DOMAIN handlers :
       /\ handlers[i].op = "removed"
       /\ handlers[i].id = t
       /\ \A j \in DOMAIN handlers :
            (j > i /\ handlers[j].id = t) => handlers[j].op # "created"}

\* C35: once a removed event for a tab has been delivered and every handler
\* has finished, the ledger has no entry for the tab (until the id is
\* created again), also when the handler of an activated or updated event
\* for the tab was still running when the removal was handled.
C35_RemovedStaysRemoved ==
  AllFinished => \A t \in RemovedLast : t \notin DOMAIN tabStats

\* C36: in every state the lifecycle handlers reach, the domain of each
\* entry is extractDomain of the entry's own url ('unknown' when that url
\* is empty or cannot be parsed).
C36_DomainMatchesUrl ==
  \A t \in DOMAIN tabStats : tabStats[t].domain = extractDomain(tabStats[t].url)

\* ----------------------------------- further properties of the estimator
\* call j started while call i, for the same tab, was awaiting its probe
StartedDuring(i, j) ==
  /\ i < j
  /\ calls[i].tabId = calls[j].tabId
  /\ calls[i].probed
  /\ calls[i].pc = "probing" \/ j <= calls[i].retAt

\* C37: when estimateTabMemory is called for a tab while an earlier call
\* for the same tab is still awaiting its probe, no second probe is sent
\* and the two calls return the same estimate.
C37_SharedProbe ==
  \A i, j \in DOMAIN calls :
    StartedDuring(i, j) =>
      /\ ~calls[j].probed
      /\ (calls[i].pc = "done" /\ calls[j].pc = "done")
           => Visible(calls[i].result) = Visible(calls[j].result)

\* SpecNav: the estimator while the tabs navigate.  A caller passes the
\* tab.url that chrome.tabs.query reports at the time of the call.

\* the tab loads another page
Navigate(t, url) ==
  /\ nEvents < MaxMemSteps
  /\ t \in DOMAIN openTabs
  /\ url # openTabs[t].url
  /\ openTabs' = [openTabs EXCEPT ![t].url = url]
  /\ nEvents' = nEvents + 1
  /\ UNCHANGED <<clock, tabStats, closedTabs, settings, sessionStats, ev,
                 synced, handlers, base, memVars, xferVars>>

NextNav ==
  \/ \E d \in MemTickSteps : MemTick(d)
  \/ \E t \in MemTabIds, url \in MemUrls : Navigate(t, url)
  \/ \E t \in MemTabIds : StartEstimate(t)
  \/ \E i \in DOMAIN calls, outcome \in ProbeAnswers : ProbeAnswer(i, outcome)
  \/ \E i \in DOMAIN calls : ProbeTimeout(i)

SpecNav == InitMem /\ [][NextNav]_vars

\* C38: an estimate that estimateTabMemory returns was computed for the
\* tabUrl of the call that returns it: after the tab navigated, a call with
\* the new url does not get the entry cached for the old url.
C38_EstimateIsForUrl ==
  \A j \in DOMAIN calls :
    calls[j].pc = "done" => calls[calls[j].result.by].url = calls[j].url

\* ------------------------------------------------- tracking switched off
LifecycleOps == {"created", "activated", "updated", "removed"}

\* C39: while the stored setting trackingEnabled is false, a created,
\* activated, updated or removed event leaves tabStats, closedTabs and
\* sessionStats as they were.
C39_TrackingOffFreezesLedger ==
  [][(~settings.trackingEnabled /\ ev'.op \in LifecycleOps) =>
       /\ tabStats' = tabStats
       /\ closedTabs' = closedTabs
       /\ sessionStats' = sessionStats]_vars

\* ------------------------------------- SpecEarly: a store without a ledger
\* The handlers on a store whose tabStats key holds no map: the key is not
\* written yet (initializeStorage writes the settings first and awaits), or
\* an import has put null there.
Undefined == [x \in {0} |-> "undefined"]
Null == [x \in {0} |-> "null"]
NonMaps == {Undefined, Null}

InitEarly ==
  /\ clock = 0
  /\ \E open \in {1..k : k \in 0..MaxTabs} :
       \E shape \in TabShapes :
         openTabs = [t \in open |-> MkTab(t, shape)]
  /\ tabStats = Undefined
  /\ closedTabs = << >>
  /\ settings = InstalledSettings
  /\ sessionStats = EmptyMap
  /\ ev = NoEvent
  /\ synced = FALSE
  /\ nEvents = 0
  /\ handlers = << >>
  /\ base = [tabStats |-> EmptyMap, closedTabs |-> closedTabs]
  /\ MemIdle
  /\ XferIdle

\* initializeStorage found no tabStats and writes {}; trackExistingTabs
\* follows
FinishInstall ==
  /\ nEvents < MaxSteps
  /\ tabStats = Undefined
  /\ tabStats' = trackExistingTabs(EmptyMap, openTabs, clock)
  /\ ev' = [NoEvent EXCEPT !.op = "resync", !.now = clock]
  /\ synced' = TRUE
  /\ nEvents' = nEvents + 1
  /\ UNCHANGED <<clock, openTabs, closedTabs, settings, sessionStats,
                 handlers, base, memVars, xferVars>>

\* importData('{"tabStats": null}')
ImportNull ==
  /\ nEvents < MaxSteps
  /\ tabStats' = Null
  /\ ev' = [NoEvent EXCEPT !.op = "import"]
  /\ synced' = FALSE
  /\ nEvents' = nEvents + 1
  /\ UNCHANGED <<clock, openTabs, closedTabs, settings, sessionStats,
                 handlers, base, memVars, xferVars>>

\* The browser's part of an event on the open tabs
TabsAfter(op, t, tab) ==
  CASE op = "created" -> Put(openTabs, t, tab)
    [] op = "updated" -> [openTabs EXCEPT ![t] = tab]
    [] op = "removed" -> Drop(openTabs, t)
    [] OTHER -> openTabs

\* A listener runs on a store without a ledger: const { tabStats } = await
\* chrome.storage.local.get('tabStats') gives undefined or null, and the
\* next statement reads or writes tabStats[tab.id]: a TypeError.  Nothing is
\* written, and updateSessionStats, which the listener awaits afterwards, is
\* not reached.
HandlerThrows(op, t, shape) ==
  LET tab == IF op = "created" \/ op = "updated" THEN MkTab(t, shape)
             ELSE IF op = "activated" THEN openTabs[t]
             ELSE [url |-> "", title |-> ""] IN
  /\ nEvents < MaxSteps
  /\ tabStats \in NonMaps
  /\ IF op = "created" THEN t \notin DOMAIN openTabs ELSE t \in DOMAIN openTabs
  /\ op = "updated" => ChangeInfoSet(openTabs[t], MkTab(t, shape))
  /\ openTabs' = TabsAfter(op, t, tab)
  /\ ev' = [op |-> op, id |-> t, now |-> clock, url |-> tab.url,
            title |-> tab.title, threw |-> TRUE]
  /\ nEvents' = nEvents + 1
  /\ UNCHANGED <<clock, tabStats, closedTabs, settings, sessionStats, synced,
                 handlers, base, memVars, xferVars>>

NextEarly ==
  \/ FinishInstall
  \/ ImportNull
  \/ \E op \in LifecycleOps, t \in TabIds, shape \in TabShapes :
       HandlerThrows(op, t, shape)
  \/ tabStats \notin NonMaps /\
       \E t \in TabIds, shape \in TabShapes : OnCreated(t, shape)
  \/ tabStats \notin NonMaps /\ \E t \in TabIds : OnActivated(t)
  \/ tabStats \notin NonMaps /\
       \E t \in TabIds, shape \in TabShapes : OnUpdated(t, shape)
  \/ tabStats \notin NonMaps /\ \E t \in TabIds : OnRemoved(t)
  \/ ClearAllStats

SpecEarly == InitEarly /\ [][NextEarly]_vars

Threw(e) == "threw" \in DOMAIN e

\* C40: from every store that installation, importData and clearAllStats
\* reach, also one whose tabStats is not written yet or was replaced by an
\* imported value that is no map, every lifecycle handler completes
\* without an error, and a created event leaves an entry for its tab.
C40_HandlersNeverThrow ==
  [][ev'.op \in LifecycleOps =>
       /\ ~Threw(ev')
       /\ ev'.op = "created" =>
            (tabStats' \notin NonMaps /\ ev'.id \in DOMAIN tabStats')]_vars

====
